---------------------------- MODULE Spec2Model ----------------------------
(***************************************************************************)
(* Model of the TSL2591 sky-quality modules of allsky-modules:             *)
(*   allsky_pisqm      : Tsl2591 driver, advanced_read (capped             *)
(*                       auto-ranging), forced_read, calculate_light,      *)
(*                       pisqm (smart-memory seed, MPSAS, JSON record)     *)
(*   allsky_tsl2591SQM : Tsl2591 driver, adjGain/adjTime, advanced_read    *)
(*                       (four while loops), read_low_lux, calculate_light,*)
(*                       tsl2591SQM (MPSAS)                                *)
(*   allsky_dewheater  : readDHT22, getSensorReading, turnHeaterOn/Off,    *)
(*                       dewheater                                         *)
(* and of the Tsl2591 setters on their own and advanced_read on a linear   *)
(* sensor.                                                                 *)
(* Floating-point quotients are kept as exact fractions (numerator and     *)
(* divisor); log10 is kept symbolic.                                       *)
(***************************************************************************)
EXTENDS Integers, Sequences, FiniteSets, TLC

(***************************************************************************)
(* Register encodings shared by both modules.                              *)
(***************************************************************************)
GAIN_LOW == 0
GAIN_MED == 16
GAIN_HIGH == 32
GAIN_MAX == 48

INTEGRATIONTIME_100MS == 0
INTEGRATIONTIME_200MS == 1
INTEGRATIONTIME_300MS == 2
INTEGRATIONTIME_400MS == 3
INTEGRATIONTIME_500MS == 4
INTEGRATIONTIME_600MS == 5

Gains == {GAIN_LOW, GAIN_MED, GAIN_HIGH, GAIN_MAX}
IntegrationTimes == INTEGRATIONTIME_100MS .. INTEGRATIONTIME_600MS

SATURATED == 65535

(***************************************************************************)
(* Inputs of the model.                                                    *)
(***************************************************************************)
\* Values a channel register read can deliver (16-bit words).  0 is also
\* what pisqm's read_word hands over after a transport error.
FullReadings == {0, 2000, 60000, 60001, 65535}
IrReadings == {0, 2, 65535}

(***************************************************************************)
(* allsky_pisqm : driver helpers                                           *)
(***************************************************************************)

\* Tsl2591.get_int_time_ms: case_integ.get(self.integration_time, 100)
get_int_time_ms(it) ==
    CASE it = INTEGRATIONTIME_100MS -> 100
      [] it = INTEGRATIONTIME_200MS -> 200
      [] it = INTEGRATIONTIME_300MS -> 300
      [] it = INTEGRATIONTIME_400MS -> 400
      [] it = INTEGRATIONTIME_500MS -> 500
      [] it = INTEGRATIONTIME_600MS -> 600
      [] OTHER -> 100

\* case_gain of calculate_light, in tenths: 1., 24.5, 400., 9876.
\* (.get(self.gain, 24.5) for an unknown gain)
case_gain10(g) ==
    CASE g = GAIN_LOW -> 10
      [] g = GAIN_MED -> 245
      [] g = GAIN_HIGH -> 4000
      [] g = GAIN_MAX -> 98760
      [] OTHER -> 245

\* cpuW0 = (atime / 100.0) * (again / 400.0) * 264.1, in units of 1/40000
cpuW0(g, it) == (get_int_time_ms(it) \div 100) * case_gain10(g) * 2641

ZeroLight == [kind |-> "pair", full |-> 0, ir |-> 0, div |-> 1, cpuW0 |-> 1]

\* pisqm_calculate_light testing the counts with > instead of >=.
pisqm_calculate_light_strict(g, it, full, ir) ==
    IF (full > SATURATED) \/ (ir > SATURATED)
    THEN ZeroLight
    ELSE IF cpuW0(g, it) = 0
         THEN ZeroLight
         ELSE [kind |-> "pair", full |-> full, ir |-> ir, div |-> 1,
               cpuW0 |-> cpuW0(g, it)]

\* Tsl2591.calculate_light (pisqm).  The result (fullc, irc) is the pair
\* full/(div*cpuW0), ir/(div*cpuW0); div is 1 for integer counts.
pisqm_calculate_light(g, it, full, ir) ==
    IF (full >= SATURATED) \/ (ir >= SATURATED)
    THEN ZeroLight
    ELSE IF cpuW0(g, it) = 0
         THEN ZeroLight
         ELSE [kind |-> "pair", full |-> full, ir |-> ir, div |-> 1,
               cpuW0 |-> cpuW0(g, it)]

\* sign of flux_diff = full_C - ir_C for a pair with a common positive divisor
FluxSign(light) ==
    IF light.full > light.ir THEN 1
    ELSE IF light.full < light.ir THEN -1 ELSE 0

DARK_LIMIT == 25

\* pisqm lines 404-408: MPSAS from the flux difference.  "log" stands for
\* M0 + GA - 2.5 * math.log10(flux_diff), evaluated on a positive argument.
pisqm_mpsas(light) ==
    IF FluxSign(light) > 0
    THEN [kind |-> "log", value |-> 0, logArgSign |-> FluxSign(light)]
    ELSE [kind |-> "const", value |-> DARK_LIMIT, logArgSign |-> 0]


(***************************************************************************)
(* State                                                                   *)
(***************************************************************************)
VARIABLES
    prog,           \* which module this run of the model follows
    json_file,      \* pisqm: the JSON record at json_file_path
    ui_gain,        \* pisqm: params "gain"
    ui_int,         \* pisqm: params "integration"
    p_pc,           \* pisqm: position of the invocation
    p_gain,         \* pisqm: tsl.gain
    p_int,          \* pisqm: tsl.integration_time
    p_power,        \* pisqm: ENABLE register of the device ("On" / "Off")
    p_attempt,      \* pisqm: advanced_read's attempt counter
    p_full,         \* pisqm: full, the last word read from CHAN0
    p_ir,           \* pisqm: ir, the last word read from CHAN1
    p_light,        \* pisqm: (full_C, ir_C) of the invocation
    p_mpsas,        \* pisqm: mpsas of the invocation
    p_wrote,        \* pisqm: the last invocation's json.dump succeeded
    p_startGain,    \* observer: gain the driver was constructed with
    p_startInt,     \* observer: integration time it was constructed with
    p_nFull,        \* observer: CHAN0 reads of the current cycle
    p_nIr,          \* observer: CHAN1 reads of the current cycle
    p_down,         \* observer: the cycle has stepped sensitivity down
    p_up,           \* observer: the cycle has stepped sensitivity up
    p_result,       \* pisqm: what the invocation returned
    p_readPower,    \* observer: ENABLE state at the latest channel read
    p_margin,       \* observer: ms waited before the latest channel read
                    \*   beyond the integration time then in effect
    p_fullErr,      \* observer: the latest read of CHAN0 raised in read_word
    p_retCfg,       \* observer: gain and integration time in effect when the
                    \*   words advanced_read / forced_read returned were read
    p_kind,         \* observer: how the cycle of the invocation ended
    p_io,           \* observer: record and bus events of the invocation
    p_dumped,       \* pisqm: AS_PISQM_MPSAS of the record the invocation wrote
    p_allErr,       \* observer: every channel read of the invocation so far
                    \*   raised in read_word
    s_entry,        \* tsl2591SQM: what called advanced_read
    s_pc,           \* tsl2591SQM: position
    s_gain,         \* tsl2591SQM: tsl.gain
    s_int,          \* tsl2591SQM: tsl.integration_time
    s_power,        \* tsl2591SQM: ENABLE register of the device
    s_loop,         \* tsl2591SQM: the while loop of advanced_read in progress
    s_full,         \* tsl2591SQM: full, the last word read from CHAN0
    s_ir,           \* tsl2591SQM: ir, the last word read from CHAN1
    s_light,        \* tsl2591SQM: what calculate_light returned
    s_mpsas,        \* tsl2591SQM: mpsas
    s_result,       \* tsl2591SQM: how the call ended
    l_nread,        \* read_low_lux: nread
    l_fullSum,      \* read_low_lux: fullSum
    l_irSum,        \* read_low_lux: irSum
    l_mean,         \* read_low_lux: the (full, ir) handed to calculate_light
    s_startGain,    \* observer: gain when advanced_read was entered
    s_startInt,     \* observer: integration time when it was entered
    s_nFull,        \* observer: CHAN0 reads of the current cycle
    s_nIr,          \* observer: CHAN1 reads of the current cycle
    s_down,         \* observer: the cycle has stepped sensitivity down
    s_up,           \* observer: the cycle has stepped sensitivity up
    s_cycles,       \* observer: advanced_read cycles of the current call
    l_fixed,        \* observer: every cycle of the call returned (10, 2)
    s_readPower,    \* observer: ENABLE state at the latest channel read
    s_margin,       \* observer: ms waited before the latest channel read
                    \*   beyond the integration time then in effect
    d_lastrun,      \* dewheater: database key "dewheaterlastrun"
    d_ontime,       \* dewheater: database key "dewheaterontime"
    d_heater,       \* dewheater: what the heater pin was last driven to
    d_clock,        \* dewheater: time.time() of the latest run
    d_run,          \* observer: parameters and outcome of the latest run
    d_lastCall,     \* observer: the latest of turnHeaterOn / turnHeaterOff
    d_onSince,      \* observer: time of the first turnHeaterOn since the
                    \*   latest turnHeaterOff
    r_pc,           \* readDHT22: position of the call
    r_retry,        \* readDHT22: dhtxxretrycount
    r_delay,        \* readDHT22: dhtxxdelay
    r_count,        \* readDHT22: count
    r_temp,         \* readDHT22: temperature
    r_hum,          \* readDHT22: humidity
    r_attempts,     \* observer: calls of doDHTXXRead
    r_sleeps,       \* observer: calls of time.sleep
    r_sleptMs,      \* observer: ms slept in all
    t_mod,          \* setters: the module whose Tsl2591 driver is exercised
    t_gain,         \* setters: self.gain
    t_int,          \* setters: self.integration_time
    t_power,        \* setters: ENABLE register of the device
    t_call,         \* observer: the latest call on the driver
    n_pc,           \* linear sensor: position of the advanced_read cycle
    n_k,            \* linear sensor: the constant illumination
    n_gain,         \* linear sensor: tsl.gain
    n_int,          \* linear sensor: tsl.integration_time
    n_attempt,      \* linear sensor: attempt
    n_full,         \* linear sensor: full, the latest CHAN0 count
    n_prev,         \* observer: the CHAN0 count before the latest
    n_lastDir,      \* observer: the step taken on the latest count
    n_stepBefore,   \* observer: the step taken between n_prev and n_full
    n_down,         \* observer: the cycle has stepped sensitivity down
    n_up            \* observer: the cycle has stepped sensitivity up

pvars == <<json_file, ui_gain, ui_int, p_pc, p_gain, p_int, p_power, p_attempt,
           p_full, p_ir, p_light, p_mpsas, p_wrote, p_startGain, p_startInt,
           p_nFull, p_nIr, p_down, p_up, p_result, p_readPower, p_margin,
           p_fullErr, p_retCfg, p_kind, p_io, p_dumped, p_allErr>>

svars == <<s_entry, s_pc, s_gain, s_int, s_power, s_loop, s_full, s_ir,
           s_light, s_mpsas, s_result, l_nread, l_fullSum, l_irSum, l_mean,
           s_startGain, s_startInt, s_nFull, s_nIr, s_down, s_up,
           s_cycles, l_fixed, s_readPower, s_margin>>

dvars == <<d_lastrun, d_ontime, d_heater, d_clock, d_run, d_lastCall,
          d_onSince>>

rvars == <<r_pc, r_retry, r_delay, r_count, r_temp, r_hum, r_attempts,
           r_sleeps, r_sleptMs>>

tvars == <<t_mod, t_gain, t_int, t_power, t_call>>

nvars == <<n_pc, n_k, n_gain, n_int, n_attempt, n_full, n_prev, n_lastDir,
           n_stepBefore, n_down, n_up>>

\* what the sensor modules leave alone
ovars == <<dvars, rvars, tvars, nvars>>

(***************************************************************************)
(* allsky_pisqm : pisqm configuration parsing and smart memory             *)
(***************************************************************************)
UiGains == {"Auto", "Low", "Medium", "High", "Max"}
UiInts == {"Auto", "100ms", "200ms", "300ms", "400ms", "500ms", "600ms"}

\* gain_map.get(ui_gain, GAIN_MED)
gain_map(u) ==
    CASE u = "Low" -> GAIN_LOW
      [] u = "Medium" -> GAIN_MED
      [] u = "High" -> GAIN_HIGH
      [] u = "Max" -> GAIN_MAX
      [] OTHER -> GAIN_MED

\* int_map.get(ui_int, INTEGRATIONTIME_200MS)
int_map(u) ==
    CASE u = "100ms" -> INTEGRATIONTIME_100MS
      [] u = "200ms" -> INTEGRATIONTIME_200MS
      [] u = "300ms" -> INTEGRATIONTIME_300MS
      [] u = "400ms" -> INTEGRATIONTIME_400MS
      [] u = "500ms" -> INTEGRATIONTIME_500MS
      [] u = "600ms" -> INTEGRATIONTIME_600MS
      [] OTHER -> INTEGRATIONTIME_200MS

\* keys of ms_to_enum
ValidMs == {100, 200, 300, 400, 500, 600}

\* ms_to_enum[loaded_int_ms]
ms_to_enum(ms) ==
    CASE ms = 100 -> INTEGRATIONTIME_100MS
      [] ms = 200 -> INTEGRATIONTIME_200MS
      [] ms = 300 -> INTEGRATIONTIME_300MS
      [] ms = 400 -> INTEGRATIONTIME_400MS
      [] ms = 500 -> INTEGRATIONTIME_500MS
      [] ms = 600 -> INTEGRATIONTIME_600MS

\* A key of the JSON record that is not there, and a value int() rejects.
NoKey == -1
Garbage == -2
\* Values that int() accepts and that are no gain code / no integration time.
BadGainCode == 7
BadMs == 250

NoFile == [exists |-> FALSE, gain |-> NoKey, int |-> NoKey]

\* Contents the record can have before the first invocation: no file, or a
\* file holding any mix of valid, invalid, unparsable and missing values
\* (the other valid values arrive through the record pisqm itself writes).
InitialFiles ==
    {NoFile} \cup
    [exists : {TRUE},
     gain : {GAIN_MAX, BadGainCode, NoKey, Garbage},
     int : {600, BadMs, NoKey, Garbage}]

\* SmartStart consulting the record whenever either parameter is Auto.
SmartStart_perAxis(ug, ui, file) ==
    LET start_gain == gain_map(ug)
        start_int == int_map(ui)
        gainRaises == file.gain = Garbage
        g1 == IF ug = "Auto" /\ file.exists /\ file.gain \in Gains
              THEN file.gain
              ELSE start_gain
        i1 == IF ui = "Auto" /\ file.exists /\ ~gainRaises
                 /\ file.int \in ValidMs
              THEN ms_to_enum(file.int)
              ELSE start_int
    IN  [gain |-> g1, int |-> i1]

\* pisqm lines 357-382: start values from the overrides, then, in Auto/Auto
\* mode with a record present, from the record.  int() raising on the gain
\* value leaves the try block before the integration value is looked at.
SmartStart(ug, ui, file) ==
    LET start_gain == gain_map(ug)
        start_int == int_map(ui)
        useMemory == ug = "Auto" /\ ui = "Auto" /\ file.exists
        gainRaises == file.gain = Garbage
        g1 == IF useMemory /\ file.gain \in Gains THEN file.gain
              ELSE start_gain
        i1 == IF useMemory /\ ~gainRaises /\ file.int \in ValidMs
              THEN ms_to_enum(file.int)
              ELSE start_int
    IN  [gain |-> g1, int |-> i1]

(***************************************************************************)
(* allsky_pisqm : Tsl2591.advanced_read                                    *)
(***************************************************************************)
max_attempts == 15
HIGH_THRESHOLD == 60000
LOW_THRESHOLD == 2000

\* GainDown going from Max straight to Medium.
GainDown_skip(g) ==
    CASE g = GAIN_MAX -> GAIN_MED
      [] g = GAIN_HIGH -> GAIN_MED
      [] g = GAIN_MED -> GAIN_LOW
      [] OTHER -> g

\* lines 199-201: the gain one level down
GainDown(g) ==
    CASE g = GAIN_MAX -> GAIN_HIGH
      [] g = GAIN_HIGH -> GAIN_MED
      [] g = GAIN_MED -> GAIN_LOW
      [] OTHER -> g

\* lines 218-226: the gain one level up
GainUp(g) ==
    CASE g = GAIN_LOW -> GAIN_MED
      [] g = GAIN_MED -> GAIN_HIGH
      [] g = GAIN_HIGH -> GAIN_MAX
      [] OTHER -> g

\* StepDown shortening the integration time before lowering the gain.
StepDown_timeFirst(g, it) ==
    IF it > INTEGRATIONTIME_100MS
    THEN [gain |-> g, int |-> it - 1, changed |-> TRUE, dir |-> "down"]
    ELSE IF g > GAIN_LOW
         THEN [gain |-> GainDown(g), int |-> it, changed |-> TRUE,
               dir |-> "down"]
         ELSE [gain |-> g, int |-> it, changed |-> FALSE, dir |-> "none"]

\* StepDown reporting a change at Low gain / 100 ms.
StepDown_neverStops(g, it) ==
    IF g > GAIN_LOW
    THEN [gain |-> GainDown(g), int |-> it, changed |-> TRUE, dir |-> "down"]
    ELSE IF it > INTEGRATIONTIME_100MS
         THEN [gain |-> g, int |-> it - 1, changed |-> TRUE, dir |-> "down"]
         ELSE [gain |-> g, int |-> it, changed |-> TRUE, dir |-> "down"]

\* lines 196-208: full > 60000
StepDown(g, it) ==
    IF g > GAIN_LOW
    THEN [gain |-> GainDown(g), int |-> it, changed |-> TRUE, dir |-> "down"]
    ELSE IF it > INTEGRATIONTIME_100MS
         THEN [gain |-> g, int |-> it - 1, changed |-> TRUE, dir |-> "down"]
         ELSE [gain |-> g, int |-> it, changed |-> FALSE, dir |-> "none"]

\* StepUp without the test against the last integration time.
StepUp_unclamped(g, it) ==
    IF g < GAIN_MAX
    THEN [gain |-> GainUp(g), int |-> it,
          changed |-> g \in {GAIN_LOW, GAIN_MED, GAIN_HIGH},
          dir |-> IF g \in {GAIN_LOW, GAIN_MED, GAIN_HIGH} THEN "up" ELSE "none"]
    ELSE [gain |-> g, int |-> it + 1, changed |-> TRUE, dir |-> "up"]

\* lines 211-233: full < 2000
StepUp(g, it) ==
    IF g < GAIN_MAX
    THEN [gain |-> GainUp(g), int |-> it,
          changed |-> g \in {GAIN_LOW, GAIN_MED, GAIN_HIGH},
          dir |-> IF g \in {GAIN_LOW, GAIN_MED, GAIN_HIGH} THEN "up" ELSE "none"]
    ELSE IF it < INTEGRATIONTIME_600MS
         THEN [gain |-> g, int |-> it + 1, changed |-> TRUE, dir |-> "up"]
         ELSE [gain |-> g, int |-> it, changed |-> FALSE, dir |-> "none"]

\* AutoRange with the underflow test written full <= 2000.
AutoRange_inclusive(g, it, full) ==
    IF full > HIGH_THRESHOLD THEN StepDown(g, it)
    ELSE IF full <= LOW_THRESHOLD THEN StepUp(g, it)
    ELSE [gain |-> g, int |-> it, changed |-> FALSE, dir |-> "none"]

\* line 215: the count the comment on the threshold reasons about
COMMENT_FULL == 4000

\* AutoRange stepping up below 4000, the count lines 214-216 warn about.
AutoRange_eager(g, it, full) ==
    IF full > HIGH_THRESHOLD THEN StepDown(g, it)
    ELSE IF full < COMMENT_FULL THEN StepUp(g, it)
    ELSE [gain |-> g, int |-> it, changed |-> FALSE, dir |-> "none"]

\* lines 196-235: what one loop iteration does with the reading
AutoRange(g, it, full) ==
    IF full > HIGH_THRESHOLD THEN StepDown(g, it)
    ELSE IF full < LOW_THRESHOLD THEN StepUp(g, it)
    ELSE [gain |-> g, int |-> it, changed |-> FALSE, dir |-> "none"]

\* LoopGuard written attempt <= max_attempts.
LoopGuard_offByOne(attempt) == attempt <= max_attempts

\* line 185: while attempt < max_attempts
LoopGuard(attempt) == attempt < max_attempts

(***************************************************************************)
(* allsky_pisqm : the bus                                                  *)
(***************************************************************************)
\* What bus.read_word_data delivers: a word, or an exception.
BusError == -1

\* read_word handing over 0xFFFF after an exception.
pisqm_read_word_saturated(w) == IF w = BusError THEN SATURATED ELSE w

\* read_word lines 156-161: an exception is logged and 0 returned.
pisqm_read_word(w) == IF w = BusError THEN 0 ELSE w

\* lines 168, 187: wait_time = get_int_time_ms() / 1000.0 + 0.12, in ms
SETTLE_MS == 120
pisqm_wait_ms(it) == get_int_time_ms(it) + SETTLE_MS

\* What the two channel reads of an iteration can deliver.
FullWords == FullReadings \cup {BusError}
IrWords == IrReadings \cup {BusError}

\* The writes that can raise before the first wait: the constructor's first
\* enable(), a later write of the constructor, or the enable() that opens
\* the measurement.
BusFaults == {"initEnable", "initWrite", "enable"}

(***************************************************************************)
(* allsky_pisqm : actions                                                  *)
(***************************************************************************)
\* No configuration: no words have been returned yet.
NoCfg == [gain |-> NoKey, int |-> NoKey]

\* line 361: the record is opened and loaded
UseMemory(ug, ui, file) == ug = "Auto" /\ ui = "Auto" /\ file.exists

\* StartIo loading the record after the driver has been constructed.
StartIo_late(useMemory) ==
    IF useMemory THEN <<"bus", "load">> ELSE <<"bus">>

\* lines 361-386: json.load of the record when it is consulted, then the
\* first transaction on the bus (the constructor's set_timing).
StartIo(useMemory) ==
    IF useMemory THEN <<"load", "bus">> ELSE <<"bus">>

PRest ==
    /\ ui_gain = "Auto"
    /\ ui_int = "Auto"
    /\ p_pc = "idle"
    /\ p_gain = GAIN_MED
    /\ p_int = INTEGRATIONTIME_200MS
    /\ p_power = "Off"
    /\ p_attempt = 0
    /\ p_full = 0
    /\ p_ir = 0
    /\ p_light = ZeroLight
    /\ p_mpsas = [kind |-> "none", value |-> 0, logArgSign |-> 0]
    /\ p_wrote = FALSE
    /\ p_startGain = GAIN_MED
    /\ p_startInt = INTEGRATIONTIME_200MS
    /\ p_nFull = 0
    /\ p_nIr = 0
    /\ p_down = FALSE
    /\ p_up = FALSE
    /\ p_result = "none"
    /\ p_readPower = "none"
    /\ p_margin = 0
    /\ p_fullErr = FALSE
    /\ p_retCfg = NoCfg
    /\ p_kind = "none"
    /\ p_io = <<>>
    /\ p_dumped = [kind |-> "none", value |-> 0, logArgSign |-> 0]
    /\ p_allErr = TRUE

\* The observers of a cycle and the parameters, back at their initial
\* values when the invocation returns.
PForget ==
    /\ ui_gain' = "Auto"
    /\ ui_int' = "Auto"
    /\ p_attempt' = 0
    /\ p_startGain' = GAIN_MED
    /\ p_startInt' = INTEGRATIONTIME_200MS
    /\ p_nFull' = 0
    /\ p_nIr' = 0
    /\ p_down' = FALSE
    /\ p_up' = FALSE
    /\ p_readPower' = "none"
    /\ p_margin' = 0
    /\ p_fullErr' = FALSE
    /\ p_retCfg' = NoCfg

\* pisqm lines 309-399 up to the first wait: parse the parameters, pick the
\* start configuration, construct the driver (set_timing, set_gain,
\* disable), then enter advanced_read or forced_read (enable).
PisqmStart(ug, ui) ==
    /\ prog = "pisqm"
    /\ p_pc = "idle"
    /\ LET start == SmartStart(ug, ui, json_file)
       IN  /\ p_gain' = start.gain
           /\ p_int' = start.int
           /\ p_startGain' = start.gain
           /\ p_startInt' = start.int
    /\ ui_gain' = ug
    /\ ui_int' = ui
    /\ p_pc' = IF ug = "Auto" /\ ui = "Auto" THEN "ranging" ELSE "forced"
    /\ p_result' = "none"
    /\ p_power' = "On"
    /\ p_attempt' = 0
    /\ p_full' = 0
    /\ p_ir' = 0
    /\ p_light' = ZeroLight
    /\ p_mpsas' = [kind |-> "none", value |-> 0, logArgSign |-> 0]
    /\ p_nFull' = 0
    /\ p_nIr' = 0
    /\ p_down' = FALSE
    /\ p_up' = FALSE
    /\ p_readPower' = "none"
    /\ p_margin' = 0
    /\ p_fullErr' = FALSE
    /\ p_wrote' = FALSE
    /\ p_retCfg' = NoCfg
    /\ p_kind' = "none"
    /\ p_io' = StartIo(UseMemory(ug, ui, json_file))
    /\ p_dumped' = [kind |-> "none", value |-> 0, logArgSign |-> 0]
    /\ p_allErr' = TRUE
    /\ UNCHANGED <<prog, json_file, svars, ovars>>

\* A failed initialisation that also removes the record.
PisqmStartFault_clobbers(bus) ==
    /\ prog = "pisqm"
    /\ p_pc = "idle"
    /\ p_pc' = "idle"
    /\ p_result' = IF bus = "enable" THEN "Error" ELSE "InitFailed"
    /\ p_power' = CASE bus = "initEnable" -> p_power
                    [] bus = "initWrite" -> "On"
                    [] OTHER -> "Off"
    /\ p_full' = 0
    /\ p_ir' = 0
    /\ p_light' = ZeroLight
    /\ p_mpsas' = [kind |-> "none", value |-> 0, logArgSign |-> 0]
    /\ p_wrote' = FALSE
    /\ p_kind' = "none"
    /\ p_io' \in {StartIo(u) : u \in {FALSE, json_file.exists}}
    /\ p_dumped' = [kind |-> "none", value |-> 0, logArgSign |-> 0]
    /\ p_allErr' = TRUE
    /\ PForget
    /\ json_file' = NoFile
    /\ UNCHANGED <<prog, p_gain, p_int, svars, ovars>>

\* The same lines when a write_byte_data raises before the first wait.  In
\* the constructor: pisqm returns err_msg (lines 387-390), with the device
\* untouched (the first enable() raised) or enabled (a later write raised).
\* In the enable() of advanced_read / forced_read: pisqm returns "Error"
\* (lines 433-435), the constructor having disabled the device.  No driver
\* object is left in either case.
PisqmStartFault(bus) ==
    /\ prog = "pisqm"
    /\ p_pc = "idle"
    /\ p_pc' = "idle"
    /\ p_result' = IF bus = "enable" THEN "Error" ELSE "InitFailed"
    /\ p_power' = CASE bus = "initEnable" -> p_power
                    [] bus = "initWrite" -> "On"
                    [] OTHER -> "Off"
    /\ p_full' = 0
    /\ p_ir' = 0
    /\ p_light' = ZeroLight
    /\ p_mpsas' = [kind |-> "none", value |-> 0, logArgSign |-> 0]
    /\ p_wrote' = FALSE
    /\ p_kind' = "none"
    /\ p_io' \in {StartIo(u) : u \in {FALSE, json_file.exists}}
    /\ p_dumped' = [kind |-> "none", value |-> 0, logArgSign |-> 0]
    /\ p_allErr' = TRUE
    /\ PForget
    /\ UNCHANGED <<prog, json_file, p_gain, p_int, svars, ovars>>

\* advanced_read lines 185-238: one loop iteration (wait, read both
\* channels, adjust), and, when the loop ends, disable and return.
AdvancedReadIter(wFull, wIr) ==
    /\ p_pc = "ranging"
    /\ LoopGuard(p_attempt)
    /\ LET full == pisqm_read_word(wFull)
           r == AutoRange(p_gain, p_int, full)
           again == r.changed /\ LoopGuard(p_attempt + 1)
       IN  /\ p_gain' = r.gain
           /\ p_int' = r.int
           /\ p_down' = (p_down \/ r.dir = "down")
           /\ p_up' = (p_up \/ r.dir = "up")
           /\ p_pc' = IF again THEN "ranging" ELSE "measured"
           /\ p_power' = IF again THEN "On" ELSE "Off"
           /\ p_full' = full
           /\ p_retCfg' = IF again THEN NoCfg
                          ELSE [gain |-> p_gain, int |-> p_int]
           /\ p_kind' = IF again THEN "none"
                        ELSE IF r.changed THEN "exhausted" ELSE "converged"
           /\ p_io' = IF again THEN p_io ELSE Append(p_io, "disable")
    /\ p_ir' = pisqm_read_word(wIr)
    /\ p_readPower' = p_power
    /\ p_margin' = pisqm_wait_ms(p_int) - get_int_time_ms(p_int)
    /\ p_fullErr' = (wFull = BusError)
    /\ p_allErr' = (p_allErr /\ wFull = BusError /\ wIr = BusError)
    /\ p_attempt' = p_attempt + 1
    /\ p_nFull' = p_nFull + 1
    /\ p_nIr' = p_nIr + 1
    /\ UNCHANGED <<prog, json_file, ui_gain, ui_int, p_light, p_mpsas, p_wrote,
                   p_startGain, p_startInt, p_result, p_dumped, svars, ovars>>

\* forced_read lines 167-175: wait, read both channels, disable.
ForcedRead(wFull, wIr) ==
    /\ p_pc = "forced"
    /\ p_full' = pisqm_read_word(wFull)
    /\ p_ir' = pisqm_read_word(wIr)
    /\ p_readPower' = p_power
    /\ p_margin' = pisqm_wait_ms(p_int) - get_int_time_ms(p_int)
    /\ p_fullErr' = (wFull = BusError)
    /\ p_allErr' = (p_allErr /\ wFull = BusError /\ wIr = BusError)
    /\ p_nFull' = p_nFull + 1
    /\ p_nIr' = p_nIr + 1
    /\ p_power' = "Off"
    /\ p_pc' = "measured"
    /\ p_retCfg' = [gain |-> p_gain, int |-> p_int]
    /\ p_kind' = "manual"
    /\ p_io' = Append(p_io, "disable")
    /\ UNCHANGED <<prog, json_file, ui_gain, ui_int, p_gain, p_int, p_attempt,
                   p_light, p_mpsas, p_wrote, p_startGain, p_startInt, p_down,
                   p_up, p_result, p_dumped, svars, ovars>>

\* A write_byte_data of the cycle raises (set_gain / set_timing in lines
\* 198-230, disable in lines 174, 237): the exception leaves the driver with
\* the device enabled and pisqm returns "Error" (lines 433-435).
BusWriteFault ==
    /\ p_pc \in {"ranging", "forced"}
    /\ p_pc' = "idle"
    /\ p_result' = "Error"
    /\ p_power' = "On"
    /\ p_wrote' = FALSE
    /\ p_kind' = "none"
    /\ p_allErr' = TRUE
    /\ PForget
    /\ UNCHANGED <<prog, json_file, p_gain, p_int, p_full, p_ir, p_light,
                   p_mpsas, p_io, p_dumped, svars, ovars>>

\* SqmData storing tsl.integration_time itself instead of get_int_time_ms().
SqmData_enum(g, it) ==
    [exists |-> TRUE, gain |-> g, int |-> it]

\* The record pisqm writes (lines 413-420), reduced to the two keys that a
\* later invocation reads back: AS_PISQM_GAIN and AS_PISQM_INT.
SqmData(g, it) ==
    [exists |-> TRUE, gain |-> g, int |-> get_int_time_ms(it)]

\* pisqm lines 401-431: calculate_light, MPSAS, write the record (the write
\* can fail and is then only logged), return.  What stays is the record, the
\* driver's last configuration and the result; the parameters and the
\* observers of the cycle go back to their initial values.
PisqmFinish(writeOk) ==
    /\ p_pc = "measured"
    /\ LET light == pisqm_calculate_light(p_gain, p_int, p_full, p_ir)
           mpsas == pisqm_mpsas(light)
       IN  /\ p_light' = light
           /\ p_mpsas' = mpsas
           /\ json_file' = IF writeOk THEN SqmData(p_gain, p_int)
                           ELSE json_file
           /\ p_dumped' = IF writeOk THEN mpsas
                          ELSE [kind |-> "none", value |-> 0, logArgSign |-> 0]
    /\ p_wrote' = writeOk
    /\ p_io' = IF writeOk THEN Append(p_io, "dump") ELSE p_io
    /\ p_pc' = "idle"
    /\ p_result' = "SQM"
    /\ PForget
    /\ UNCHANGED <<prog, p_gain, p_int, p_power, p_full, p_ir, p_kind,
                   p_allErr, svars, ovars>>


(***************************************************************************)
(* allsky_tsl2591SQM : driver helpers                                      *)
(***************************************************************************)
DOWN == 0
UP == 1

\* Tsl2591.adjTime: the integration time set_timing is called with
adjTime(it, adjDirection) ==
    CASE it = INTEGRATIONTIME_100MS ->
            IF adjDirection > DOWN THEN INTEGRATIONTIME_200MS
            ELSE INTEGRATIONTIME_100MS
      [] it = INTEGRATIONTIME_200MS ->
            IF adjDirection > DOWN THEN INTEGRATIONTIME_300MS
            ELSE INTEGRATIONTIME_100MS
      [] it = INTEGRATIONTIME_300MS ->
            IF adjDirection > DOWN THEN INTEGRATIONTIME_400MS
            ELSE INTEGRATIONTIME_200MS
      [] it = INTEGRATIONTIME_400MS ->
            IF adjDirection > DOWN THEN INTEGRATIONTIME_500MS
            ELSE INTEGRATIONTIME_300MS
      [] it = INTEGRATIONTIME_500MS ->
            IF adjDirection > DOWN THEN INTEGRATIONTIME_600MS
            ELSE INTEGRATIONTIME_400MS
      [] OTHER ->
            IF adjDirection > DOWN THEN INTEGRATIONTIME_600MS
            ELSE INTEGRATIONTIME_500MS

\* Tsl2591.adjGain: the gain set_gain is called with
adjGain(g, adjDirection) ==
    CASE g = GAIN_LOW ->
            IF adjDirection > DOWN THEN GAIN_MED ELSE GAIN_LOW
      [] g = GAIN_MED ->
            IF adjDirection > DOWN THEN GAIN_HIGH ELSE GAIN_LOW
      [] g = GAIN_HIGH ->
            IF adjDirection > DOWN THEN GAIN_MAX ELSE GAIN_MED
      [] OTHER ->
            IF adjDirection > DOWN THEN GAIN_MAX ELSE GAIN_HIGH

\* case_integ of calculate_light, in ms; 600. for an unknown step
sqm_atime(it) ==
    CASE it = INTEGRATIONTIME_100MS -> 100
      [] it = INTEGRATIONTIME_200MS -> 200
      [] it = INTEGRATIONTIME_300MS -> 300
      [] it = INTEGRATIONTIME_400MS -> 400
      [] it = INTEGRATIONTIME_500MS -> 500
      [] it = INTEGRATIONTIME_600MS -> 600
      [] OTHER -> 600

\* case_gain of calculate_light, in tenths; 9876. for an unknown gain
sqm_again10(g) ==
    CASE g = GAIN_LOW -> 10
      [] g = GAIN_MED -> 245
      [] g = GAIN_HIGH -> 4000
      [] g = GAIN_MAX -> 98760
      [] OTHER -> 98760

\* cpuW0 = (atime/100.) * (again/400.) * 264.1, in units of 1/40000
sqm_cpuW0(g, it) == (sqm_atime(it) \div 100) * sqm_again10(g) * 2641

\* Tsl2591.calculate_light (tsl2591SQM), called with the counts
\* fullNum/div and irNum/div (div is 1 for the words advanced_read returns,
\* nread for the means of read_low_lux).
sqm_calculate_light(g, it, fullNum, irNum, div) ==
    IF (fullNum = SATURATED * div) \/ (irNum = SATURATED * div)
    THEN [kind |-> "scalar", full |-> -1, ir |-> -1, div |-> 1, cpuW0 |-> 1]
    ELSE [kind |-> "pair", full |-> fullNum, ir |-> irNum, div |-> div,
          cpuW0 |-> sqm_cpuW0(g, it)]

SQM_OUT_OF_RANGE == -25

\* tsl2591SQM lines 333-345.  Unpacking a result that is no pair raises, and
\* so does math.log10 of a negative argument; mpsas then keeps the value it
\* was initialised with (line 311).
sqm_mpsas(light) ==
    IF light.kind # "pair"
    THEN [kind |-> "raised", value |-> SQM_OUT_OF_RANGE, logArgSign |-> 0]
    ELSE IF FluxSign(light) # 0
         THEN IF FluxSign(light) < 0
              THEN [kind |-> "raised", value |-> SQM_OUT_OF_RANGE,
                    logArgSign |-> -1]
              ELSE [kind |-> "log", value |-> 0, logArgSign |-> 1]
         ELSE [kind |-> "const", value |-> SQM_OUT_OF_RANGE, logArgSign |-> 0]

(***************************************************************************)
(* allsky_tsl2591SQM : Tsl2591.advanced_read                               *)
(***************************************************************************)
SQM_HIGH == 65504
SQM_LOW == 16

\* The condition of the k-th while loop of advanced_read (lines 261-276).
LoopCond(k, full, g, it) ==
    CASE k = 1 -> (full > SQM_HIGH) /\ (g > GAIN_LOW)
      [] k = 2 -> (full > SQM_HIGH) /\ (it > INTEGRATIONTIME_100MS)
      [] k = 3 -> (full < SQM_LOW) /\ (g < GAIN_MAX)
      [] k = 4 -> (full < SQM_LOW) /\ (it < INTEGRATIONTIME_600MS)
      [] OTHER -> FALSE

NoLoop == 5

\* The loop whose body runs next when control stands before loop k:
\* the first of k..4 whose condition holds, NoLoop when none does.
RECURSIVE ActiveLoop(_, _, _, _)
ActiveLoop(k, full, g, it) ==
    IF k >= NoLoop THEN NoLoop
    ELSE IF LoopCond(k, full, g, it) THEN k
    ELSE ActiveLoop(k + 1, full, g, it)

\* LoopBody whose first loop raises the gain instead of lowering it.
LoopBody_wrongWay(k, g, it) ==
    CASE k = 1 -> [gain |-> adjGain(g, UP), int |-> it]
      [] k = 2 -> [gain |-> g, int |-> adjTime(it, DOWN)]
      [] k = 3 -> [gain |-> adjGain(g, UP), int |-> it]
      [] OTHER -> [gain |-> g, int |-> adjTime(it, UP)]

\* The body of the k-th loop: the configuration after adjGain / adjTime.
LoopBody(k, g, it) ==
    CASE k = 1 -> [gain |-> adjGain(g, DOWN), int |-> it]
      [] k = 2 -> [gain |-> g, int |-> adjTime(it, DOWN)]
      [] k = 3 -> [gain |-> adjGain(g, UP), int |-> it]
      [] OTHER -> [gain |-> g, int |-> adjTime(it, UP)]

(***************************************************************************)
(* allsky_tsl2591SQM : read_low_lux                                        *)
(***************************************************************************)
NOISE_FLOOR == 128
MAX_NREAD == 40

\* LowLuxGuard written nread <= 40.
LowLuxGuard_offByOne(fullSum, irSum, nread) ==
    (fullSum - irSum < NOISE_FLOOR) /\ (nread <= MAX_NREAD)

\* line 292: while ((visSum < 128) & (nread < 40))
LowLuxGuard(fullSum, irSum, nread) ==
    (fullSum - irSum < NOISE_FLOOR) /\ (nread < MAX_NREAD)

\* LowLuxMean dividing by the cap instead of by nread.
LowLuxMean_byCap(fullSum, irSum, nread) ==
    [full |-> fullSum, ir |-> irSum, div |-> MAX_NREAD]

\* lines 299-300: full = fullSum/nread, ir = irSum/nread, as fractions
LowLuxMean(fullSum, irSum, nread) ==
    [full |-> fullSum, ir |-> irSum, div |-> nread]

(***************************************************************************)
(* allsky_tsl2591SQM : actions                                             *)
(***************************************************************************)
SqmFullReadings == {10, 16, 20, 65504, 65535}
SqmIrReadings == {2, 20, 65535}
LowLuxFullReadings == {10, 200}
LowLuxIrReadings == {2, 20}

NoLight == [kind |-> "none", full |-> 0, ir |-> 0, div |-> 1, cpuW0 |-> 1]
NoMpsas == [kind |-> "none", value |-> 0, logArgSign |-> 0]
NoMean == [full |-> 0, ir |-> 0, div |-> 1]

SRest ==
    /\ s_entry = "none"
    /\ s_pc = "idle"
    /\ s_gain = GAIN_HIGH
    /\ s_int = INTEGRATIONTIME_200MS
    /\ s_power = "Off"
    /\ s_loop = 1
    /\ s_full = 0
    /\ s_ir = 0
    /\ s_light = NoLight
    /\ s_mpsas = NoMpsas
    /\ s_result = "none"
    /\ l_nread = 0
    /\ l_fullSum = 0
    /\ l_irSum = 0
    /\ l_mean = NoMean
    /\ s_startGain = GAIN_HIGH
    /\ s_startInt = INTEGRATIONTIME_200MS
    /\ s_nFull = 0
    /\ s_nIr = 0
    /\ s_down = FALSE
    /\ s_up = FALSE
    /\ s_cycles = 0
    /\ l_fixed = TRUE
    /\ s_readPower = "none"
    /\ s_margin = 0

\* advanced_read line 255-256: enable, then the one sleep of the cycle.
EnterAdvancedRead(g, it) ==
    /\ s_pc' = "entered"
    /\ s_power' = "On"
    /\ s_loop' = 1
    /\ s_startGain' = g
    /\ s_startInt' = it
    /\ s_nFull' = 0
    /\ s_nIr' = 0
    /\ s_down' = FALSE
    /\ s_up' = FALSE
    /\ s_readPower' = "none"
    /\ s_margin' = 0

\* The observers of a cycle, back at their initial values.
ForgetCycle ==
    /\ s_loop' = 1
    /\ s_startGain' = GAIN_HIGH
    /\ s_startInt' = INTEGRATIONTIME_200MS
    /\ s_nFull' = 0
    /\ s_nIr' = 0
    /\ s_down' = FALSE
    /\ s_up' = FALSE
    /\ s_readPower' = "none"
    /\ s_margin' = 0

\* What every call starts from: nothing of an earlier call is kept.
NewCall(entry, g, it) ==
    /\ prog = "tsl2591SQM"
    /\ s_pc = "idle"
    /\ s_entry' = entry
    /\ s_gain' = g
    /\ s_int' = it
    /\ EnterAdvancedRead(g, it)
    /\ s_cycles' = 1
    /\ s_full' = 0
    /\ s_ir' = 0
    /\ s_light' = NoLight
    /\ s_mpsas' = NoMpsas
    /\ s_result' = "none"
    /\ l_mean' = NoMean
    /\ l_nread' = IF entry = "lowlux" THEN 1 ELSE 0
    /\ l_fullSum' = 0
    /\ l_irSum' = 0
    /\ l_fixed' = TRUE
    /\ UNCHANGED <<prog, pvars, ovars>>

\* tsl2591SQM lines 320-327: how the initialisation can leave the driver.
\* All three calls succeed: Medium / 300 ms.  set_gain raises: the
\* constructor's High / 200 ms.  set_timing raises: Medium / 200 ms.  The
\* except clause only records the failure, and advanced_read is called.
SqmInitOutcomes ==
    {<<GAIN_MED, INTEGRATIONTIME_300MS>>,
     <<GAIN_HIGH, INTEGRATIONTIME_200MS>>,
     <<GAIN_MED, INTEGRATIONTIME_200MS>>}

\* tsl2591SQM lines 316-332 (a run that shouldRun lets through): Tsl2591(1),
\* set_gain(GAIN_MED), set_timing(INTEGRATIONTIME_300MS), advanced_read.
SqmStart(cfg) == NewCall("main", cfg[1], cfg[2])

\* tsl2591SQM lines 320-354 when Tsl2591(1) itself raises: tsl is never
\* bound, tsl.advanced_read() raises and the outer except clause ends the
\* run with result "ERROR".  The device is as the failed constructor left
\* it.
SqmInitFail(pw) ==
    /\ prog = "tsl2591SQM"
    /\ s_pc = "idle"
    /\ s_entry' = "main"
    /\ s_pc' = "idle"
    /\ s_result' = "ERROR"
    /\ s_power' = pw
    /\ s_gain' = GAIN_HIGH
    /\ s_int' = INTEGRATIONTIME_200MS
    /\ s_cycles' = 0
    /\ s_full' = 0
    /\ s_ir' = 0
    /\ s_light' = NoLight
    /\ s_mpsas' = NoMpsas
    /\ l_mean' = NoMean
    /\ l_nread' = 0
    /\ l_fullSum' = 0
    /\ l_irSum' = 0
    /\ l_fixed' = TRUE
    /\ ForgetCycle
    /\ UNCHANGED <<prog, pvars, ovars>>

\* Tsl2591(sensor_id, integration, gain).advanced_read() on a driver
\* constructed with any gain and integration time.
DriverStart(g, it) == NewCall("driver", g, it)

\* Tsl2591(sensor_id, integration, gain).read_low_lux() lines 286-287, on a
\* driver constructed with any gain and integration time.
LowLuxStart(g, it) == NewCall("lowlux", g, it)

\* line 256: time.sleep(0.120 * self.integration_time + 1), in ms
sqm_wait_ms(it) == 120 * it + 1000

\* read_word lines 250-252: an exception of the bus is not caught.
sqm_read_raises(wFull, wIr) == wFull = BusError \/ wIr = BusError

\* advanced_read lines 258-261...: the first read of both channels, then the
\* loop conditions: the first loop whose condition holds is entered; when
\* none holds, disable and return (lines 281-282).  A read that raises
\* leaves advanced_read at once.
SqmFirstRead(wFull, wIr) ==
    /\ s_pc = "entered"
    /\ IF sqm_read_raises(wFull, wIr)
       THEN /\ s_pc' = "raised"
            /\ UNCHANGED <<s_loop, s_power, s_full, s_ir>>
       ELSE LET k == ActiveLoop(1, wFull, s_gain, s_int)
            IN  /\ s_loop' = k
                /\ s_pc' = IF k < NoLoop THEN "loops" ELSE "returned"
                /\ s_power' = IF k < NoLoop THEN s_power ELSE "Off"
                /\ s_full' = wFull
                /\ s_ir' = wIr
    /\ s_readPower' = s_power
    /\ s_margin' = sqm_wait_ms(s_int) - sqm_atime(s_int)
    /\ s_nFull' = s_nFull + 1
    /\ s_nIr' = s_nIr + 1
    /\ UNCHANGED <<s_entry, s_gain, s_int, s_light, s_mpsas, s_result, l_nread,
                   l_fullSum, l_irSum, l_mean, s_startGain, s_startInt,
                   s_down, s_up, s_cycles, l_fixed, prog, pvars, ovars>>

\* advanced_read lines 261-282: the body of the loop in progress (adjGain /
\* adjTime, whose set_gain / set_timing end with disable, then read both
\* channels with no sleep), then the loop conditions from this loop on: stay
\* in it, fall through to a later loop, or disable and return.  A read that
\* raises leaves advanced_read at once.
SqmLoopIter(wFull, wIr) ==
    /\ s_pc = "loops"
    /\ LET cfg == LoopBody(s_loop, s_gain, s_int)
       IN  /\ s_gain' = cfg.gain
           /\ s_int' = cfg.int
           /\ s_margin' = 0 - sqm_atime(cfg.int)
           /\ IF sqm_read_raises(wFull, wIr)
              THEN /\ s_pc' = "raised"
                   /\ UNCHANGED <<s_loop, s_full, s_ir>>
              ELSE LET k == ActiveLoop(s_loop, wFull, cfg.gain, cfg.int)
                   IN  /\ s_loop' = k
                       /\ s_pc' = IF k < NoLoop THEN "loops" ELSE "returned"
                       /\ s_full' = wFull
                       /\ s_ir' = wIr
    /\ s_down' = (s_down \/ s_loop \in {1, 2})
    /\ s_up' = (s_up \/ s_loop \in {3, 4})
    /\ s_power' = "Off"
    /\ s_readPower' = "Off"
    /\ s_nFull' = s_nFull + 1
    /\ s_nIr' = s_nIr + 1
    /\ UNCHANGED <<s_entry, s_light, s_mpsas, s_result, l_nread, l_fullSum,
                   l_irSum, l_mean, s_startGain, s_startInt,
                   s_cycles, l_fixed, prog, pvars, ovars>>

\* The exception of a read leaves advanced_read: tsl2591SQM catches it and
\* ends the run with result "ERROR" (lines 352-354); a bare advanced_read
\* or read_low_lux passes it to its caller.  No disable() is issued.
SqmPropagate ==
    /\ s_pc = "raised"
    /\ s_result' = IF s_entry = "main" THEN "ERROR" ELSE "raised"
    /\ s_pc' = "idle"
    /\ ForgetCycle
    /\ UNCHANGED <<s_entry, s_gain, s_int, s_power, s_full, s_ir, s_light,
                   s_mpsas, l_nread, l_fullSum, l_irSum, l_mean, s_cycles,
                   l_fixed, prog, pvars, ovars>>

\* tsl2591SQM lines 333-354: calculate_light, MPSAS, save; an exception
\* ends the run with result "ERROR".
SqmFinish ==
    /\ s_pc = "returned"
    /\ s_entry = "main"
    /\ LET light == sqm_calculate_light(s_gain, s_int, s_full, s_ir, 1)
           mpsas == sqm_mpsas(light)
       IN  /\ s_light' = light
           /\ s_mpsas' = mpsas
           /\ s_result' = IF mpsas.kind = "raised" THEN "ERROR" ELSE "MPSAS"
    /\ s_pc' = "idle"
    /\ ForgetCycle
    /\ UNCHANGED <<s_entry, s_gain, s_int, s_power, s_full, s_ir, l_nread,
                   l_fullSum, l_irSum, l_mean, s_cycles, l_fixed, prog, pvars, ovars>>

\* A bare advanced_read has returned (full, ir) to its caller.
DriverFinish ==
    /\ s_pc = "returned"
    /\ s_entry = "driver"
    /\ s_result' = "returned"
    /\ s_pc' = "idle"
    /\ ForgetCycle
    /\ UNCHANGED <<s_entry, s_gain, s_int, s_power, s_full, s_ir, s_light,
                   s_mpsas, l_nread, l_fullSum, l_irSum, l_mean, s_cycles,
                   l_fixed, prog, pvars, ovars>>

\* read_low_lux lines 288-297: add the cycle's counts to the sums and, while
\* the loop condition holds, count the next read and enter advanced_read.
LowLuxRepeat ==
    /\ s_pc = "returned"
    /\ s_entry = "lowlux"
    /\ LowLuxGuard(l_fullSum + s_full, l_irSum + s_ir, l_nread)
    /\ l_fullSum' = l_fullSum + s_full
    /\ l_irSum' = l_irSum + s_ir
    /\ l_nread' = l_nread + 1
    /\ EnterAdvancedRead(s_gain, s_int)
    /\ s_cycles' = s_cycles + 1
    /\ l_fixed' = (l_fixed /\ s_full = 10 /\ s_ir = 2)
    /\ UNCHANGED <<s_entry, s_gain, s_int, s_full, s_ir, s_light, s_mpsas,
                   s_result, l_mean, prog, pvars, ovars>>

\* read_low_lux lines 288-301: add the cycle's counts to the sums; the loop
\* condition fails: divide and call calculate_light.
LowLuxFinish ==
    /\ s_pc = "returned"
    /\ s_entry = "lowlux"
    /\ ~LowLuxGuard(l_fullSum + s_full, l_irSum + s_ir, l_nread)
    /\ l_fullSum' = l_fullSum + s_full
    /\ l_irSum' = l_irSum + s_ir
    /\ LET mean == LowLuxMean(l_fullSum + s_full, l_irSum + s_ir, l_nread)
       IN  /\ l_mean' = mean
           /\ s_light' = sqm_calculate_light(s_gain, s_int, mean.full, mean.ir,
                                             mean.div)
    /\ s_result' = "returned"
    /\ s_pc' = "idle"
    /\ l_fixed' = (l_fixed /\ s_full = 10 /\ s_ir = 2)
    /\ ForgetCycle
    /\ UNCHANGED <<s_entry, s_gain, s_int, s_power, s_full, s_ir, s_mpsas,
                   l_nread, s_cycles, prog, pvars, ovars>>

SFullReadings == IF s_entry = "lowlux" THEN LowLuxFullReadings ELSE SqmFullReadings
SIrReadings == IF s_entry = "lowlux" THEN LowLuxIrReadings ELSE SqmIrReadings
SFullWords == SFullReadings \cup {BusError}
SIrWords == SIrReadings \cup {BusError}

(***************************************************************************)
(* allsky_dewheater : readDHT22                                            *)
(***************************************************************************)
\* Python's None, for a temperature, a humidity or a dew point.
NoneVal == -99999

\* Temperatures and dew points are kept in hundredths of a degree, the
\* precision getSensorReading rounds to (lines 532-535).
HUNDREDTHS == 100

\* the spinner of dhtxxretrycount: 0 .. 5 (lines 95-98)
dhtxxretrycount_max == 5
RetryCounts == 0 .. dhtxxretrycount_max

\* values of dhtxxdelay, in ms: none, and the default (line 57)
Delays == {0, 500}

\* What doDHTXXRead can return for each of temperature and humidity.
DhtTemperatures == {NoneVal, 2000}
DhtHumidities == {NoneVal, 95}

\* DhtStop letting one more attempt through.
DhtStop_late(count, dhtxxretrycount) == count > dhtxxretrycount + 1

\* line 319: if count > dhtxxretrycount: reading = False
DhtStop(count, dhtxxretrycount) == count > dhtxxretrycount

RRest ==
    /\ r_pc = "idle"
    /\ r_retry = 0
    /\ r_delay = 0
    /\ r_count = 0
    /\ r_temp = NoneVal
    /\ r_hum = NoneVal
    /\ r_attempts = 0
    /\ r_sleeps = 0
    /\ r_sleptMs = 0

\* readDHT22 lines 307-311: the call and its locals.
DhtCall(dhtxxretrycount, dhtxxdelay) ==
    /\ prog = "readDHT22"
    /\ r_pc \in {"idle", "done"}
    /\ r_pc' = "reading"
    /\ r_retry' = dhtxxretrycount
    /\ r_delay' = dhtxxdelay
    /\ r_count' = 0
    /\ r_temp' = NoneVal
    /\ r_hum' = NoneVal
    /\ r_attempts' = 0
    /\ r_sleeps' = 0
    /\ r_sleptMs' = 0
    /\ UNCHANGED <<prog, pvars, svars, dvars, tvars, nvars>>

\* readDHT22 lines 313-326: one iteration of the while loop: doDHTXXRead,
\* and, when both values are None, count, then stop or sleep.
DhtAttempt(temperature, humidity) ==
    /\ r_pc = "reading"
    /\ LET failed == temperature = NoneVal /\ humidity = NoneVal
           count == IF failed THEN r_count + 1 ELSE r_count
           stop == IF failed THEN DhtStop(count, r_retry) ELSE TRUE
       IN  /\ r_count' = count
           /\ r_pc' = IF stop THEN "done" ELSE "reading"
           /\ r_sleeps' = IF stop THEN r_sleeps ELSE r_sleeps + 1
           /\ r_sleptMs' = IF stop THEN r_sleptMs ELSE r_sleptMs + r_delay
    /\ r_temp' = temperature
    /\ r_hum' = humidity
    /\ r_attempts' = r_attempts + 1
    /\ UNCHANGED <<r_retry, r_delay, prog, pvars, svars, dvars, tvars, nvars>>

(***************************************************************************)
(* allsky_dewheater : dewheater                                            *)
(***************************************************************************)
\* What the sensor functions hand to getSensorReading: temperature and
\* humidity, either of which can be None.
SensorReadings ==
    {[temp |-> NoneVal, hum |-> NoneVal],
     [temp |-> 2000, hum |-> 95],
     [temp |-> 2000, hum |-> 50],
     [temp |-> -500, hum |-> 95],
     [temp |-> -500, hum |-> NoneVal]}

\* meteocalc.dew_point(temperature, humidity).c for the readings above, to
\* the nearest 0.05 degree.
dew_point(temperature, humidity) ==
    CASE temperature = 2000 /\ humidity = 95 -> 1920
      [] temperature = 2000 /\ humidity = 50 -> 925
      [] temperature = -500 /\ humidity = 95 -> -570
      [] OTHER -> temperature

\* lines 527-528: (x * (9/5)) + 32
ToFahrenheit(x) == (x * 9) \div 5 + 32 * HUNDREDTHS

\* getSensorReading lines 521-535: the dew point exists when temperature and
\* humidity both do; with temptype 'F' both are converted.
getSensorReading(raw, tempUnits) ==
    IF raw.temp # NoneVal /\ raw.hum # NoneVal
    THEN LET dewPoint == dew_point(raw.temp, raw.hum)
         IN  IF tempUnits = "F"
             THEN [temperature |-> ToFahrenheit(raw.temp),
                   humidity |-> raw.hum,
                   dewPoint |-> ToFahrenheit(dewPoint)]
             ELSE [temperature |-> raw.temp, humidity |-> raw.hum,
                   dewPoint |-> dewPoint]
    ELSE [temperature |-> raw.temp, humidity |-> raw.hum,
          dewPoint |-> NoneVal]

\* turnHeaterOn stamping the time on every call.
turnHeaterOn_restamps(h, now) ==
    [heater |-> "On", ontime |-> now]

\* turnHeaterOn lines 458-476, on the pair (pin, dewheaterontime)
turnHeaterOn(h, now) ==
    [heater |-> "On",
     ontime |-> IF h.ontime = NoKey THEN now ELSE h.ontime]

\* turnHeaterOff lines 478-495
turnHeaterOff(h) ==
    [heater |-> "Off", ontime |-> NoKey]

\* getLastRunTime reading no record at all.
getLastRunTime_blind(lastrun) == NoKey

\* getLastRunTime lines 539-545: None (here NoKey) without the key
getLastRunTime(lastrun) == lastrun

\* line 613: maxontime != 0 and lastOnSecs >= maxontime
MaxExceeded(maxontime, lastOnSecs) ==
    maxontime # 0 /\ lastOnSecs >= maxontime

\* ForceApplies comparing with < instead of <=.
ForceApplies_strict(force, temperature) ==
    force # 0 /\ temperature < force * HUNDREDTHS

\* line 620: force != 0 and temperature <= force
ForceApplies(force, temperature) ==
    force # 0 /\ temperature <= force * HUNDREDTHS

\* The settings a behaviour runs with: params of the module and temptype.
DewParams ==
    [heaterpin : {0, 17},
     heaterstartupstate : {"ON", "OFF"},
     frequency : {2},
     limit : {10},
     force : {0, 20},
     max : {0, 3},
     tempUnits : {"C", "F"}]

\* latest time.time() the model lets a run see
MaxClock == 4

\* dewheater lines 550-691 as a function of the settings, of what
\* s.shouldRun answers, of the clock, of the sensor's reading and of the
\* database and pin: the new database and pin, and what the run did.  A
\* second pin (extrapin) repeats the calls of the heater pin and leaves the
\* database as the first call left it.
dewheater(pr, shouldRun, now, raw, db) ==
    LET h == [heater |-> db.heater, ontime |-> db.ontime]
        out(hh, lr, res, t, rd) ==
            [lastrun |-> lr, ontime |-> hh.ontime, heater |-> hh.heater,
             result |-> res, temp |-> t, sensorRead |-> rd]
        lastRunTime == getLastRunTime(db.lastrun)
        rdg == getSensorReading(raw, pr.tempUnits)
        lastOnSecs == IF db.ontime # NoKey THEN now - db.ontime ELSE 0
    IN  CASE ~shouldRun ->
               out(h, db.lastrun, "gated", NoneVal, FALSE)
          [] shouldRun /\ pr.heaterpin = 0 ->
               out(h, db.lastrun, "pinInvalid", NoneVal, FALSE)
          [] shouldRun /\ pr.heaterpin # 0 /\ lastRunTime = NoKey ->
               IF pr.heaterstartupstate = "ON"
               THEN out(turnHeaterOn(h, now), now, "startup", NoneVal, FALSE)
               ELSE out(turnHeaterOff(h), now, "startup", NoneVal, FALSE)
          [] shouldRun /\ pr.heaterpin # 0 /\ lastRunTime # NoKey ->
               IF now - lastRunTime < pr.frequency
               THEN out(h, db.lastrun, "notRun", NoneVal, FALSE)
               ELSE IF rdg.temperature = NoneVal
               THEN out(h, now, "failedRead", NoneVal, TRUE)
               ELSE IF MaxExceeded(pr.max, lastOnSecs)
               THEN out(turnHeaterOff(h), now, "maxOff", rdg.temperature,
                        TRUE)
               ELSE IF ForceApplies(pr.force, rdg.temperature)
               THEN out(turnHeaterOn(h, now), now, "forced",
                        rdg.temperature, TRUE)
               ELSE IF rdg.dewPoint = NoneVal
               THEN out(h, now, "raised", rdg.temperature, TRUE)
               ELSE IF rdg.temperature - pr.limit * HUNDREDTHS <= rdg.dewPoint
               THEN out(turnHeaterOn(h, now), now, "withinLimit",
                        rdg.temperature, TRUE)
               ELSE out(turnHeaterOff(h), now, "outsideLimit",
                        rdg.temperature, TRUE)

\* the defaults of metaData "arguments" (lines 43-62), with a frequency
DefaultParams ==
    [heaterpin |-> 0, heaterstartupstate |-> "OFF", frequency |-> 2,
     limit |-> 10, force |-> 0, max |-> 0, tempUnits |-> "C"]

NoRun(pr) ==
    [result |-> "none", temp |-> NoneVal, sensorRead |-> FALSE,
     onSecs |-> NoKey, params |-> pr]

\* Before the first run: an empty database and the heater off.  The settings
\* stay as they are for all runs of a behaviour.
DRest ==
    /\ d_lastrun = NoKey
    /\ d_ontime = NoKey
    /\ d_heater = "Off"
    /\ d_clock = 0
    /\ d_run \in {NoRun(pr) : pr \in (IF prog = "dewheater" THEN DewParams
                                       ELSE {DefaultParams})}
    /\ d_lastCall = "none"
    /\ d_onSince = NoKey

\* Which of turnHeaterOn / turnHeaterOff a run calls: lines 616, 623, 629
\* and 638 once dewheaterlastrun exists, 671 and 676 on the first run.
HeaterCall(pr, result) ==
    CASE result = "startup" ->
             (IF pr.heaterstartupstate = "ON" THEN "on" ELSE "off")
      [] result \in {"forced", "withinLimit"} -> "on"
      [] result \in {"maxOff", "outsideLimit"} -> "off"
      [] OTHER -> "none"

\* The observers after a call at time now.
CallSeen(call, now) ==
    /\ d_lastCall' = (IF call = "none" THEN d_lastCall ELSE call)
    /\ d_onSince' = CASE call = "on" /\ d_lastCall # "on" -> now
                      [] call = "off" -> NoKey
                      [] OTHER -> d_onSince

\* One call of dewheater(params, event).
DewRun(shouldRun, now, raw) ==
    /\ prog = "dewheater"
    /\ now >= d_clock
    /\ LET pr == d_run.params
           o == dewheater(pr, shouldRun, now, raw,
                          [lastrun |-> d_lastrun, ontime |-> d_ontime,
                           heater |-> d_heater])
       IN  /\ d_lastrun' = o.lastrun
           /\ d_ontime' = o.ontime
           /\ d_heater' = o.heater
           /\ d_run' = [result |-> o.result, temp |-> o.temp,
                        sensorRead |-> o.sensorRead,
                        onSecs |-> IF d_ontime = NoKey THEN NoKey
                                   ELSE now - d_ontime,
                        params |-> pr]
           /\ CallSeen(HeaterCall(pr, o.result), now)
    /\ d_clock' = now
    /\ UNCHANGED <<prog, pvars, svars, rvars, tvars, nvars>>

\* turnHeaterOn(heaterpin) called on its own at time now (lines 458-476).
TurnHeaterOn(now) ==
    /\ prog = "turnHeater"
    /\ now >= d_clock
    /\ LET h == turnHeaterOn([heater |-> d_heater, ontime |-> d_ontime], now)
       IN  /\ d_heater' = h.heater
           /\ d_ontime' = h.ontime
    /\ CallSeen("on", now)
    /\ d_clock' = now
    /\ UNCHANGED <<prog, d_lastrun, d_run, pvars, svars, rvars, tvars, nvars>>

\* turnHeaterOff(heaterpin) called on its own at time now (lines 478-495).
TurnHeaterOff(now) ==
    /\ prog = "turnHeater"
    /\ now >= d_clock
    /\ LET h == turnHeaterOff([heater |-> d_heater, ontime |-> d_ontime])
       IN  /\ d_heater' = h.heater
           /\ d_ontime' = h.ontime
    /\ CallSeen("off", now)
    /\ d_clock' = now
    /\ UNCHANGED <<prog, d_lastrun, d_run, pvars, svars, rvars, tvars, nvars>>

(***************************************************************************)
(* Tsl2591.set_timing / set_gain / enable / disable of both modules, called *)
(* on a constructed driver in any order.                                   *)
(***************************************************************************)
\* How the bus answers the writes of one call.
BusReplies == {"ok", "enableRaises", "writeRaises", "disableRaises"}

\* allsky_pisqm set_timing lines 106-113: assign, enable(), write CONTROL.
pisqm_set_timing(dev, integration, bus) ==
    [gain |-> dev.gain,
     int |-> integration,
     power |-> IF bus = "enableRaises" THEN dev.power ELSE "On"]

\* allsky_pisqm set_gain lines 115-122: assign, enable(), write CONTROL.
pisqm_set_gain(dev, gain, bus) ==
    [gain |-> gain,
     int |-> dev.int,
     power |-> IF bus = "enableRaises" THEN dev.power ELSE "On"]

\* allsky_tsl2591SQM set_timing lines 126-134: enable(), assign, write
\* CONTROL, disable().
sqm_set_timing(dev, integration, bus) ==
    [gain |-> dev.gain,
     int |-> IF bus = "enableRaises" THEN dev.int ELSE integration,
     power |-> CASE bus = "enableRaises" -> dev.power
                 [] bus = "ok" -> "Off"
                 [] OTHER -> "On"]

\* allsky_tsl2591SQM set_gain lines 136-144: enable(), assign, write
\* CONTROL, disable().
sqm_set_gain(dev, gain, bus) ==
    [gain |-> IF bus = "enableRaises" THEN dev.gain ELSE gain,
     int |-> dev.int,
     power |-> CASE bus = "enableRaises" -> dev.power
                 [] bus = "ok" -> "Off"
                 [] OTHER -> "On"]

set_timing(mod, dev, integration, bus) ==
    IF mod = "pisqm" THEN pisqm_set_timing(dev, integration, bus)
    ELSE sqm_set_timing(dev, integration, bus)

set_gain(mod, dev, gain, bus) ==
    IF mod = "pisqm" THEN pisqm_set_gain(dev, gain, bus)
    ELSE sqm_set_gain(dev, gain, bus)

\* The replies that make a call raise: disable() is part of the setters of
\* tsl2591SQM only.
Raises(mod, bus) ==
    bus \in {"enableRaises", "writeRaises"}
    \/ (mod = "tsl2591SQM" /\ bus = "disableRaises")

TDev == [gain |-> t_gain, int |-> t_int, power |-> t_power]

NoCall == [name |-> "none", arg |-> NoKey, raised |-> FALSE]

\* The driver as its constructor leaves it (pisqm line 81: Medium / 200 ms,
\* tsl2591SQM line 117: High / 200 ms; set_timing, set_gain, disable).
TRest ==
    /\ t_gain = (IF t_mod = "pisqm" THEN GAIN_MED ELSE GAIN_HIGH)
    /\ t_int = INTEGRATIONTIME_200MS
    /\ t_power = "Off"
    /\ t_call = NoCall

SetTiming(integration, bus) ==
    /\ prog = "setters"
    /\ LET d == set_timing(t_mod, TDev, integration, bus)
       IN  /\ t_gain' = d.gain
           /\ t_int' = d.int
           /\ t_power' = d.power
    /\ t_call' = [name |-> "set_timing", arg |-> integration,
                  raised |-> Raises(t_mod, bus)]
    /\ UNCHANGED <<prog, t_mod, pvars, svars, dvars, rvars, nvars>>

SetGain(gain, bus) ==
    /\ prog = "setters"
    /\ LET d == set_gain(t_mod, TDev, gain, bus)
       IN  /\ t_gain' = d.gain
           /\ t_int' = d.int
           /\ t_power' = d.power
    /\ t_call' = [name |-> "set_gain", arg |-> gain,
                  raised |-> Raises(t_mod, bus)]
    /\ UNCHANGED <<prog, t_mod, pvars, svars, dvars, rvars, nvars>>

\* enable() / disable(): one write of the ENABLE register, which can raise.
SetPower(name, raises) ==
    /\ prog = "setters"
    /\ t_power' = IF raises THEN t_power
                  ELSE IF name = "enable" THEN "On" ELSE "Off"
    /\ t_call' = [name |-> name, arg |-> NoKey, raised |-> raises]
    /\ UNCHANGED <<prog, t_mod, t_gain, t_int, pvars, svars, dvars, rvars,
                   nvars>>

(***************************************************************************)
(* allsky_pisqm advanced_read on a linear sensor under constant            *)
(* illumination: count = min(65535, k * gain multiplier * integration ms). *)
(***************************************************************************)
\* The illumination n_k is counted in units of 1 / (2 * LinearUnit) of a
\* count at Low gain / 100 ms.
LinearUnit == 16000

\* gain multiplier * integration time of a configuration, relative to
\* Low / 100 ms and doubled: case_gain 1, 24.5, 400, 9876 (lines 140-145)
\* times 1 .. 6.
LinearGain(g, it) == (case_gain10(g) \div 5) * (get_int_time_ms(it) \div 100)

\* The count the sensor delivers: k * LinearGain / (2 * LinearUnit), a whole
\* number of counts, clipped at 0xFFFF.
LinearCount(k, g, it) ==
    LET lg == LinearGain(g, it)
        clips == (SATURATED * 2 * LinearUnit) \div lg
    IN  IF k > clips THEN SATURATED
        ELSE (k * lg) \div (2 * LinearUnit)

\* The greatest illumination whose count at (g, it) is below c, and the
\* least whose count is c or more.
KBelow(g, it, c) == (c * 2 * LinearUnit - 1) \div LinearGain(g, it)
KFrom(g, it, c) ==
    (c * 2 * LinearUnit + LinearGain(g, it) - 1) \div LinearGain(g, it)

\* Illuminations that put a count right at a threshold of advanced_read in
\* some configuration.
LinearKs ==
    {0}
    \cup {KBelow(g, it, c) : g \in Gains, it \in IntegrationTimes,
                            c \in {LOW_THRESHOLD, COMMENT_FULL}}
    \cup {KFrom(g, it, c) : g \in Gains, it \in IntegrationTimes,
                           c \in {HIGH_THRESHOLD + 1, SATURATED}}

\* advanced_read is entered on a driver holding any configuration (pisqm
\* lines 357-395), under any illumination: attempt = 0, nothing read yet.
NRest ==
    /\ n_pc = (IF prog = "linear" THEN "ranging" ELSE "idle")
    /\ n_k \in (IF prog = "linear" THEN LinearKs ELSE {0})
    /\ n_gain \in (IF prog = "linear" THEN Gains ELSE {GAIN_MED})
    /\ n_int \in (IF prog = "linear" THEN IntegrationTimes
                  ELSE {INTEGRATIONTIME_200MS})
    /\ n_attempt = 0
    /\ n_full = NoKey
    /\ n_prev = NoKey
    /\ n_lastDir = "none"
    /\ n_stepBefore = "none"
    /\ n_down = FALSE
    /\ n_up = FALSE

\* advanced_read lines 185-238: one loop iteration on the linear sensor.
LinearIter ==
    /\ n_pc = "ranging"
    /\ LoopGuard(n_attempt)
    /\ LET full == LinearCount(n_k, n_gain, n_int)
           r == AutoRange(n_gain, n_int, full)
           again == r.changed /\ LoopGuard(n_attempt + 1)
       IN  /\ n_full' = full
           /\ n_gain' = r.gain
           /\ n_int' = r.int
           /\ n_lastDir' = r.dir
           /\ n_down' = (n_down \/ r.dir = "down")
           /\ n_up' = (n_up \/ r.dir = "up")
           /\ n_pc' = IF again THEN "ranging" ELSE "done"
    /\ n_prev' = n_full
    /\ n_stepBefore' = n_lastDir
    /\ n_attempt' = n_attempt + 1
    /\ UNCHANGED <<prog, n_k, pvars, svars, dvars, rvars, tvars>>

(***************************************************************************)
(* Specification.  The modules are separate programs: a run of the model   *)
(* follows one of them.                                                    *)
(***************************************************************************)
vars == <<prog, pvars, svars, dvars, rvars, tvars, nvars>>

Init ==
    /\ prog \in {"pisqm", "tsl2591SQM", "dewheater", "readDHT22", "setters",
                 "linear", "turnHeater"}
    /\ json_file \in (IF prog = "pisqm" THEN InitialFiles ELSE {NoFile})
    /\ PRest
    /\ SRest
    /\ DRest
    /\ RRest
    /\ t_mod \in (IF prog = "setters" THEN {"pisqm", "tsl2591SQM"}
                  ELSE {"pisqm"})
    /\ TRest
    /\ NRest

Next ==
    \/ \E ug \in UiGains, ui \in UiInts : PisqmStart(ug, ui)
    \/ \E bus \in BusFaults : PisqmStartFault(bus)
    \/ \E wFull \in FullWords, wIr \in IrWords : AdvancedReadIter(wFull, wIr)
    \/ \E wFull \in FullWords, wIr \in IrWords : ForcedRead(wFull, wIr)
    \/ BusWriteFault
    \/ \E writeOk \in BOOLEAN : PisqmFinish(writeOk)
    \/ \E cfg \in SqmInitOutcomes : SqmStart(cfg)
    \/ \E pw \in {s_power, "On"} : SqmInitFail(pw)
    \/ \E g \in Gains, it \in IntegrationTimes : DriverStart(g, it)
    \/ \E g \in Gains, it \in IntegrationTimes : LowLuxStart(g, it)
    \/ \E wFull \in SFullWords, wIr \in SIrWords : SqmFirstRead(wFull, wIr)
    \/ \E wFull \in SFullWords, wIr \in SIrWords : SqmLoopIter(wFull, wIr)
    \/ SqmPropagate
    \/ SqmFinish
    \/ DriverFinish
    \/ LowLuxRepeat
    \/ LowLuxFinish
    \/ \E shouldRun \in BOOLEAN, now \in 0 .. MaxClock,
          raw \in SensorReadings : DewRun(shouldRun, now, raw)
    \/ \E now \in 0 .. MaxClock : TurnHeaterOn(now)
    \/ \E now \in 0 .. MaxClock : TurnHeaterOff(now)
    \/ \E dhtxxretrycount \in RetryCounts, dhtxxdelay \in Delays :
            DhtCall(dhtxxretrycount, dhtxxdelay)
    \/ \E temperature \in DhtTemperatures, humidity \in DhtHumidities :
            DhtAttempt(temperature, humidity)
    \/ \E integration \in IntegrationTimes, bus \in BusReplies :
            SetTiming(integration, bus)
    \/ \E gain \in Gains, bus \in BusReplies : SetGain(gain, bus)
    \/ \E name \in {"enable", "disable"}, raises \in BOOLEAN :
            SetPower(name, raises)
    \/ LinearIter

Spec == Init /\ [][Next]_vars

(***************************************************************************)
(* Properties                                                              *)
(***************************************************************************)
PAuto == ui_gain = "Auto" /\ ui_int = "Auto"

\* C1: pisqm advanced_read.  From any start configuration and for any
\* words the channel reads deliver, every loop iteration is one read of
\* CHAN0, the reads of a cycle never exceed 15, and after each read the cycle
\* has either returned or made fewer than 15 reads; a cycle that has not
\* returned can always take its next iteration.  So the cycle returns after
\* at most 15 reads.  (The only other step of a cycle is a bus write raising,
\* which ends the cycle at once.)
C1_AtMost15ReadsThenReturns ==
    /\ [][p_pc = "ranging" =>
            \/ p_pc' = "idle" /\ p_result' = "Error"
            \/ /\ p_nFull' = p_nFull + 1
               /\ p_nFull' <= 15
               /\ \/ p_pc' = "measured"
                  \/ p_pc' = "ranging" /\ p_nFull' < 15]_vars
    /\ [](p_pc = "ranging" =>
            ENABLED (\E wFull \in FullWords, wIr \in IrWords :
                        AdvancedReadIter(wFull, wIr)))

\* C1 witness: a cycle that returned because the 15 attempts were used up.
C1_CapReached ==
    p_pc = "measured" /\ PAuto /\ p_nFull = 15 /\ p_full < 2000

\* C2: advanced_read of both modules.  When the first CHAN0 word of a cycle
\* is in band (pisqm: 2000..60000, tsl2591SQM: 16..65504), the cycle returns
\* right after that read, having read each channel once, with the gain and
\* the integration time it started with (in tsl2591SQM, where read_word does
\* not catch, provided neither read raises).
C2_InBandFirstReadEndsCycle ==
    /\ [][(p_pc = "ranging" /\ p_nFull = 0
            /\ p_full' >= 2000 /\ p_full' <= 60000) =>
            /\ p_pc' = "measured"
            /\ p_nFull' = 1
            /\ p_nIr' = 1
            /\ p_gain' = p_startGain
            /\ p_int' = p_startInt]_vars
    /\ [][(s_pc = "entered" /\ s_pc' # "raised"
            /\ s_full' >= 16 /\ s_full' <= 65504) =>
            /\ s_pc' = "returned"
            /\ s_nFull' = 1
            /\ s_nIr' = 1
            /\ s_gain' = s_startGain
            /\ s_int' = s_startInt]_vars

\* C2 witness: a pisqm cycle that returned after one read of the boundary
\* word 2000, from a seeded start configuration.
C2_OneReadCycle ==
    /\ p_pc = "measured" /\ PAuto
    /\ p_nFull = 1 /\ p_nIr = 1 /\ p_full = 2000
    /\ p_gain = GAIN_HIGH /\ p_startGain = GAIN_HIGH
    /\ p_int = INTEGRATIONTIME_400MS /\ p_startInt = INTEGRATIONTIME_400MS

\* C3: boundary clamp.  In every reachable state of either module the gain
\* is one of the four gain codes and the integration time one of the six
\* steps.
C3_BoundaryClamp ==
    /\ p_gain \in {0, 16, 32, 48}
    /\ p_int \in 0 .. 5
    /\ s_gain \in {0, 16, 32, 48}
    /\ s_int \in 0 .. 5

\* C3 witness: an underflow word read at Max gain / 600 ms after stepping
\* up: the controller had nowhere to go and returned.
C3_UnderflowAtTop ==
    /\ p_pc = "measured" /\ PAuto /\ p_up /\ p_full < 2000
    /\ p_gain = GAIN_MAX /\ p_int = INTEGRATIONTIME_600MS

\* C4 (as claimed): within one cycle the controller never steps sensitivity
\* both down and up.
C4_NeverReverses ==
    /\ ~(p_down /\ p_up)
    /\ ~(s_down /\ s_up)

\* C5: seed round trip.  When an invocation has written its record and the
\* next invocation is fully automatic, auto-ranging starts from exactly the
\* gain and integration step the earlier invocation ended with.
C5_SeedRoundTrip ==
    [][(p_pc = "idle" /\ p_wrote /\ p_pc' = "ranging") =>
            /\ p_gain' = p_gain
            /\ p_int' = p_int]_vars

\* C5 witness: auto-ranging about to start from Low gain / 500 ms.  No
\* initial record holds that configuration, so the record was written by an
\* earlier invocation that ended with it.
C5_SeededStart ==
    /\ p_pc = "ranging" /\ p_attempt = 0 /\ PAuto
    /\ json_file = [exists |-> TRUE, gain |-> 0, int |-> 500]
    /\ p_gain = GAIN_LOW /\ p_int = INTEGRATIONTIME_500MS

\* C6 (as claimed): a record whose integration value is none of the six
\* steps is discarded as a whole: auto-ranging starts from Medium / 200 ms.
C6_CorruptRecordDiscarded ==
    (/\ p_pc = "ranging" /\ p_attempt = 0
     /\ json_file.exists
     /\ json_file.int \notin {100, 200, 300, 400, 500, 600, NoKey})
    => (p_gain = GAIN_MED /\ p_int = INTEGRATIONTIME_200MS)

IsZeroPair(light) == light.kind = "pair" /\ light.full = 0 /\ light.ir = 0

\* C7 (as claimed): calculate_light of either module returns the pair
\* (0, 0) when the full-spectrum or the infrared count is 0xFFFF.
C7_SaturatedGivesZeroPair ==
    /\ (p_pc = "idle" /\ p_mpsas.kind # "none"
        /\ (p_full = 65535 \/ p_ir = 65535)) => IsZeroPair(p_light)
    /\ (s_pc = "idle" /\ s_entry = "main" /\ s_light.kind # "none"
        /\ (s_full = 65535 \/ s_ir = 65535)) => IsZeroPair(s_light)

\* C8 (as claimed): in either module, when flux = full_C - ir_C is zero or
\* negative the magnitude is the constant 25.0 and no logarithm is
\* evaluated.
C8_DarkLimitWhenNoFlux ==
    /\ (p_pc = "idle" /\ p_mpsas.kind # "none" /\ FluxSign(p_light) <= 0)
        => (p_mpsas.kind = "const" /\ p_mpsas.value = 25
            /\ p_mpsas.logArgSign = 0)
    /\ (s_pc = "idle" /\ s_entry = "main"
        /\ s_light.kind = "pair" /\ FluxSign(s_light) <= 0)
        => (s_mpsas.kind = "const" /\ s_mpsas.value = 25
            /\ s_mpsas.logArgSign = 0)

\* Steps read_low_lux still has before it: 20 for each cycle it may yet
\* start, plus those left in the cycle in progress.
LowLuxRank ==
    IF s_pc = "idle" THEN 0
    ELSE 1 + (40 - s_cycles) * 20
           + (CASE s_pc = "entered" -> 19
                [] s_pc = "loops" -> 18 - s_nFull
                [] OTHER -> 0)

\* C9: read_low_lux.  For any words the channel reads deliver, the number of
\* advanced_read cycles of one call never exceeds 40, and every step of the
\* call lowers a rank that is a natural number: the call returns.
C9_AtMost40CyclesThenReturns ==
    /\ [][(s_entry = "lowlux" /\ s_pc # "idle") =>
            /\ s_cycles' <= 40
            /\ LowLuxRank' < LowLuxRank
            /\ LowLuxRank' >= 0]_vars
    /\ [](s_entry = "lowlux" => s_cycles = l_nread)

\* C9 witness: a call that returned after 40 cycles whose summed visible
\* signal never reached 128.
C9_CapReachedBelowFloor ==
    /\ s_entry = "lowlux" /\ s_pc = "idle" /\ s_result = "returned"
    /\ s_cycles = 40
    /\ l_fullSum - l_irSum < 128

\* C10 (as claimed): when every cycle returns (10, 2), read_low_lux runs 40
\* cycles and hands the means (10, 2) to calculate_light.
C10_FortyCyclesMean ==
    (s_entry = "lowlux" /\ s_pc = "idle" /\ s_result = "returned" /\ l_fixed)
    => /\ s_cycles = 40
       /\ l_mean.full = 10 * l_mean.div
       /\ l_mean.ir = 2 * l_mean.div

\* C10 (amended): when every cycle returns (10, 2), read_low_lux runs 16
\* cycles, the number at which the summed visible signal 16 * 8 reaches 128,
\* and hands the means 160/16 = 10 and 32/16 = 2 to calculate_light.
C10_SixteenCyclesMean ==
    (s_entry = "lowlux" /\ s_pc = "idle" /\ s_result = "returned" /\ l_fixed)
    => /\ s_cycles = 16
       /\ l_mean.div = 16
       /\ l_mean.full = 10 * l_mean.div
       /\ l_mean.ir = 2 * l_mean.div
       /\ s_light.kind = "pair"
       /\ s_light.full = l_mean.full
       /\ s_light.ir = l_mean.ir
       /\ s_light.div = l_mean.div

\* C10 witness: such a call has returned.
C10_FixedReadingReturned ==
    /\ s_entry = "lowlux" /\ s_pc = "idle" /\ s_result = "returned" /\ l_fixed
    /\ l_fullSum = 160 /\ l_irSum = 32

\* C11 (as claimed): in both modules every channel read of a cycle happens
\* with the device enabled.
C11_ReadsWhileEnabled ==
    /\ p_readPower # "Off"
    /\ s_readPower # "Off"

\* C12 (as claimed): in both modules every channel read is preceded, since
\* the latest enable() or set_gain / set_timing, by a wait of at least the
\* integration time in effect plus 120 ms.
C12_WaitBeforeEveryRead ==
    /\ (p_readPower # "none" => p_margin >= 120)
    /\ (s_readPower # "none" => s_margin >= 120)

\* C13 (as claimed): in both modules a cycle that has ended, by returning or
\* by an exception of the bus, leaves the device disabled.
C13_CycleEndsDisabled ==
    /\ (p_pc = "measured" => p_power = "Off")
    /\ (s_pc \in {"returned", "raised"} => s_power = "Off")

\* C14 (as claimed): in both modules an exception of a channel read stays
\* inside read_word, which hands 0 to the controller.
C14_ReadErrorBecomesZero ==
    /\ (p_fullErr => (p_full = 0 /\ p_pc \in {"ranging", "measured"}))
    /\ s_pc # "raised"

\* C15 (as claimed): whatever the bus does and whatever the record holds, an
\* invocation of pisqm or tsl2591SQM that has returned has produced a
\* magnitude.
C15_AlwaysAResult ==
    /\ (p_pc = "idle" /\ p_result # "none")
        => (p_result = "SQM" /\ p_mpsas.kind \in {"log", "const"})
    /\ (s_pc = "idle" /\ s_entry = "main" /\ s_result # "none")
        => (s_result = "MPSAS" /\ s_mpsas.kind \in {"log", "const"})

\* C16: pisqm seeding policy.  Auto-ranging (and with it the stored record)
\* is used only when both parameters are Auto.  Otherwise the invocation
\* runs with the gain and integration time the parameters name, Medium and
\* 200 ms standing in for an Auto parameter, whatever the record holds; it
\* takes one read of each channel and the configuration stays as started.
C16_ManualOverrideBypassesSeed ==
    /\ (p_pc = "ranging" => PAuto)
    /\ (p_pc = "forced" => ~PAuto /\ p_nFull = 0 /\ p_nIr = 0)
    /\ (p_pc \in {"forced", "measured"} /\ ~PAuto) =>
        /\ p_gain = (CASE ui_gain = "Low" -> 0
                       [] ui_gain = "Medium" -> 16
                       [] ui_gain = "High" -> 32
                       [] ui_gain = "Max" -> 48
                       [] ui_gain = "Auto" -> 16)
        /\ p_int = (CASE ui_int = "100ms" -> 0
                      [] ui_int = "200ms" -> 1
                      [] ui_int = "300ms" -> 2
                      [] ui_int = "400ms" -> 3
                      [] ui_int = "500ms" -> 4
                      [] ui_int = "600ms" -> 5
                      [] ui_int = "Auto" -> 1)
        /\ p_attempt = 0
        /\ ~p_down /\ ~p_up
        /\ (p_pc = "measured" => p_nFull = 1 /\ p_nIr = 1)

\* C16 witness: gain forced to Max with integration left Auto, over a record
\* holding Low / 500 ms: one forced read taken at Max / 200 ms.
C16_ForcedOverSeed ==
    /\ p_pc = "measured" /\ ui_gain = "Max" /\ ui_int = "Auto"
    /\ json_file = [exists |-> TRUE, gain |-> 0, int |-> 500]
    /\ p_gain = GAIN_MAX /\ p_int = INTEGRATIONTIME_200MS
    /\ p_nFull = 1 /\ p_nIr = 1

\* The latest call of dewheater got past s.shouldRun, the pin test and the
\* frequency test.
DewExecuted ==
    d_run.result \in {"startup", "failedRead", "maxOff", "forced", "raised",
                      "withinLimit", "outsideLimit"}

\* C17 (as claimed): with max != 0, an executed run of dewheater that found
\* the heater's recorded on-time at or above max leaves the heater Off and
\* the key dewheaterontime removed, whatever the sensor returned.
C17_MaxOnTimeSwitchesOff ==
    (/\ DewExecuted
     /\ d_run.params.max # 0
     /\ d_run.onSecs >= d_run.params.max)
    => (d_heater = "Off" /\ d_ontime = NoKey)

C19_RetryLoop ==
    /\ [][r_pc = "reading" =>
            /\ r_attempts' = r_attempts + 1
            /\ r_attempts' <= r_retry + 1
            /\ (r_temp' # NoneVal \/ r_hum' # NoneVal) => r_pc' = "done"
            /\ r_pc' = "reading" =>
                  /\ r_temp' = NoneVal /\ r_hum' = NoneVal
                  /\ r_attempts' < r_retry + 1
                  /\ r_sleeps' = r_sleeps + 1
                  /\ r_sleptMs' = r_sleptMs + r_delay
            /\ r_pc' = "done" =>
                  /\ r_sleeps' = r_sleeps
                  /\ r_sleptMs' = r_sleptMs]_vars
    /\ [](r_pc = "reading" =>
            /\ r_sleeps = r_attempts
            /\ ENABLED (\E temperature \in DhtTemperatures,
                           humidity \in DhtHumidities :
                              DhtAttempt(temperature, humidity)))
    /\ [](r_pc = "done" => r_sleeps = r_attempts - 1)

\* C19 witness: with dhtxxretrycount 2 and dhtxxdelay 500, a call whose three
\* attempts all failed: it slept twice, 1000 ms in all, and returned None.
C19_AllAttemptsFailed ==
    /\ r_pc = "done" /\ r_retry = 2 /\ r_delay = 500
    /\ r_attempts = 3 /\ r_sleeps = 2 /\ r_sleptMs = 1000
    /\ r_temp = NoneVal /\ r_hum = NoneVal

\* C20: dewheater startup state.  A run applies heaterstartupstate only when
\* it finds no dewheaterlastrun record: it then reads no sensor, drives the
\* heater to the configured state and creates the record.  A run that finds
\* the record keeps it and does not apply the startup state.
C20_StartupStateOnce ==
    [][prog = "dewheater" =>
        /\ d_lastrun # NoKey =>
              (d_lastrun' # NoKey /\ d_run'.result # "startup")
        /\ d_run'.result = "startup" =>
              /\ d_lastrun = NoKey
              /\ d_lastrun' # NoKey
              /\ ~d_run'.sensorRead
              /\ d_heater' = (IF d_run'.params.heaterstartupstate = "ON"
                              THEN "On" ELSE "Off")
        /\ (d_lastrun = NoKey /\ d_run'.sensorRead) => FALSE]_vars

\* C20 witness: with heaterstartupstate ON, a later run that found the record
\* read the sensor and switched the heater Off.
C20_LaterRunIgnoresStartup ==
    /\ d_run.result = "outsideLimit"
    /\ d_run.params.heaterstartupstate = "ON"
    /\ d_lastrun # NoKey
    /\ d_heater = "Off"

\* The gain codes are 16 apart; the integration steps are 1 apart.
GainLevel(g) == g \div 16

\* Exactly one of the two axes has moved, to a neighbouring level.
OneAdjacentStep(g, it, g2, it2) ==
    \/ /\ it2 = it
       /\ (GainLevel(g2) = GainLevel(g) + 1 \/ GainLevel(g2) = GainLevel(g) - 1)
       /\ g2 \in {0, 16, 32, 48}
    \/ /\ g2 = g
       /\ (it2 = it + 1 \/ it2 = it - 1)

\* C21: auto-ranging of both modules.  An iteration leaves the configuration
\* as it was or moves exactly one axis to a neighbouring level; an iteration
\* of pisqm that is followed by another, and every pass through a loop body
\* of tsl2591SQM, moves exactly one axis.
C21_OneAxisOneStep ==
    /\ [][p_pc = "ranging" =>
            /\ \/ (p_gain' = p_gain /\ p_int' = p_int)
               \/ OneAdjacentStep(p_gain, p_int, p_gain', p_int')
            /\ p_pc' = "ranging" =>
                  OneAdjacentStep(p_gain, p_int, p_gain', p_int')]_vars
    /\ [][s_pc = "entered" => (s_gain' = s_gain /\ s_int' = s_int)]_vars
    /\ [][s_pc = "loops" =>
            OneAdjacentStep(s_gain, s_int, s_gain', s_int')]_vars

\* C21 witness: a pisqm cycle started at High / 200 ms that has moved, one
\* step per iteration, to Max gain and then to 300 ms.
C21_GainThenTime ==
    /\ p_pc = "ranging" /\ p_attempt = 2
    /\ p_startGain = GAIN_HIGH /\ p_startInt = INTEGRATIONTIME_200MS
    /\ p_gain = GAIN_MAX /\ p_int = INTEGRATIONTIME_300MS

\* C22: auto-ranging of both modules.  The integration time goes down only
\* from a state whose gain is Low and up only from a state whose gain is
\* Max, and the gain stays there in that step.
C22_GainBeforeIntegration ==
    /\ [][p_pc = "ranging" =>
            /\ p_int' < p_int => (p_gain = 0 /\ p_gain' = 0)
            /\ p_int' > p_int => (p_gain = 48 /\ p_gain' = 48)]_vars
    /\ [][s_pc = "loops" =>
            /\ s_int' < s_int => (s_gain = 0 /\ s_gain' = 0)
            /\ s_int' > s_int => (s_gain = 48 /\ s_gain' = 48)]_vars

\* C22 witness: a tsl2591SQM cycle started at Medium / 300 ms that lowered
\* the gain to Low and then shortened the integration time to 100 ms.
C22_TimeLoweredAtLowGain ==
    /\ s_pc = "returned" /\ s_entry = "main" /\ s_down /\ ~s_up
    /\ s_startGain = GAIN_MED /\ s_startInt = INTEGRATIONTIME_300MS
    /\ s_gain = GAIN_LOW /\ s_int = INTEGRATIONTIME_100MS

\* C23: pisqm advanced_read.  An iteration that reads a word above 60000 at
\* Low gain / 100 ms, or a word below 2000 at Max gain / 600 ms, ends the
\* cycle: the configuration stays, the device is disabled, and until the
\* invocation has returned no further read is taken and the words read stay
\* what calculate_light is given.
C23_StopAtLatticeBoundary ==
    /\ [][(/\ p_pc = "ranging"
           /\ p_nFull' = p_nFull + 1
           /\ \/ p_full' > 60000 /\ p_gain = 0 /\ p_int = 0
              \/ p_full' < 2000 /\ p_gain = 48 /\ p_int = 5) =>
            /\ p_pc' = "measured"
            /\ p_gain' = p_gain
            /\ p_int' = p_int
            /\ p_power' = "Off"]_vars
    /\ [][p_pc = "measured" =>
            /\ p_pc' = "idle"
            /\ p_full' = p_full
            /\ p_ir' = p_ir
            /\ p_gain' = p_gain
            /\ p_int' = p_int
            /\ p_light' = pisqm_calculate_light(p_gain, p_int, p_full, p_ir)]_vars

\* C23 witness: a cycle that stepped down to Low gain / 100 ms, read a word
\* above 60000 there after fewer than 15 attempts and returned.
C23_SaturatedAtBottom ==
    /\ p_pc = "measured" /\ PAuto /\ p_down /\ ~p_up
    /\ p_attempt < 15
    /\ p_full > 60000
    /\ p_gain = GAIN_LOW /\ p_int = INTEGRATIONTIME_100MS

\* C24 (as claimed): the words advanced_read / forced_read return were read
\* under the gain and integration time the driver holds when it returns.
C24_ReadingUnderFinalConfig ==
    p_pc = "measured" => p_retCfg = [gain |-> p_gain, int |-> p_int]

\* Positions of an event in the log of the invocation.
IoAt(ev) == {i \in DOMAIN p_io : p_io[i] = ev}

\* C26: pisqm and its record.  An invocation loads the record at most once,
\* as its first event, before the first transaction on the bus; it writes
\* the record at most once, as its last event, right after the disable()
\* that ends the cycle and with the device Off; nothing follows the write.
C26_RecordReadFirstWrittenLast ==
    /\ [](/\ Cardinality(IoAt("load")) <= 1
          /\ \A i \in IoAt("load") : i = 1
          /\ \A i \in IoAt("bus") : IoAt("load") \subseteq 1 .. (i - 1)
          /\ Cardinality(IoAt("dump")) <= 1
          /\ \A i \in IoAt("dump") :
                /\ i = Len(p_io)
                /\ i > 1
                /\ p_io[i - 1] = "disable"
                /\ IoAt("load") \subseteq 1 .. (i - 1))
    /\ [][(\/ json_file' # json_file
            \/ (IoAt("dump") = {} /\ IoAt("dump")' # {})) =>
            /\ p_pc = "measured"
            /\ p_power = "Off"
            /\ p_pc' = "idle"]_vars

\* C26 witness: an invocation that loaded the record, ran its cycle and
\* wrote the record.
C26_LoadedThenDumped ==
    /\ p_pc = "idle" /\ p_wrote
    /\ p_io = <<"load", "bus", "disable", "dump">>

\* C27 (as claimed): an invocation that has written the record is one whose
\* auto-ranging cycle converged: a manually overridden invocation and one
\* that used up its 15 attempts leave the record alone.
C27_RecordHoldsLastConverged ==
    (p_pc = "idle" /\ p_wrote) => p_kind = "converged"

C29_AtMost17ReadsThenReturns ==
    /\ [][(s_pc = "entered" \/ s_pc = "loops") =>
            \/ s_pc' = "raised"
            \/ /\ s_nFull' = s_nFull + 1
               /\ s_nFull' <= 17
               /\ \/ s_pc' = "returned"
                  \/ s_pc' = "loops" /\ s_nFull' < 17]_vars
    /\ [](s_nFull <= 17)
    /\ []((s_pc # "idle" /\ s_startGain = 16 /\ s_startInt = 2)
            => s_nFull <= 12)
    /\ [](s_pc = "entered" =>
            ENABLED (\E wFull \in SFullReadings, wIr \in SIrReadings :
                        SqmFirstRead(wFull, wIr)))
    /\ [](s_pc = "loops" =>
            ENABLED (\E wFull \in SFullReadings, wIr \in SIrReadings :
                        SqmLoopIter(wFull, wIr)))

\* C29 witness: a cycle entered at Max gain / 600 ms that went all the way
\* down and all the way up again and returned after 17 reads.
C29_SeventeenReads ==
    /\ s_pc = "returned" /\ s_nFull = 17
    /\ s_startGain = GAIN_MAX /\ s_startInt = INTEGRATIONTIME_600MS
    /\ s_gain = GAIN_MAX /\ s_int = INTEGRATIONTIME_600MS

\* C25 (as claimed): in both modules a set_gain / set_timing that returns
\* leaves the device enabled and the driver's gain / integration time equal
\* to its argument, from either power state; and calling the setter again
\* with the same argument would leave the state it has left.
C25_SettersLeaveDeviceOn ==
    /\ (t_call.name = "set_gain" /\ ~t_call.raised) =>
          (t_power = "On" /\ t_gain = t_call.arg)
    /\ (t_call.name = "set_timing" /\ ~t_call.raised) =>
          (t_power = "On" /\ t_int = t_call.arg)
    /\ \A gain \in Gains :
          set_gain(t_mod, set_gain(t_mod, TDev, gain, "ok"), gain, "ok")
            = set_gain(t_mod, TDev, gain, "ok")
    /\ \A integration \in IntegrationTimes :
          set_timing(t_mod, set_timing(t_mod, TDev, integration, "ok"),
                     integration, "ok")
            = set_timing(t_mod, TDev, integration, "ok")

\* C28: pisqm advanced_read on the linear sensor.  A count read right after
\* a step up (taken on a count below 2000) is not above 60000; a count read
\* right after a step down (taken on a count above 60000) is not below
\* 2000; no cycle steps both down and up.
C28_NoOvershootOnLinearSensor ==
    /\ n_stepBefore = "up" => (n_prev < 2000 /\ n_full <= 60000)
    /\ n_stepBefore = "down" => (n_prev > 60000 /\ n_full >= 2000)
    /\ ~(n_down /\ n_up)

\* C28 witness: the largest jump there is, High to Max gain at 100 ms, taken
\* on a count of 1999: the next count is 49379.
C28_LargestJumpStaysInBand ==
    /\ n_stepBefore = "up" /\ n_prev = 1999 /\ n_full > 49000
    /\ n_gain = GAIN_MAX /\ n_pc = "done"

\* The record an invocation that ended at Max gain / 600 ms writes.
SeedAtTop == [exists |-> TRUE, gain |-> 48, int |-> 600]

C32_InitFailureLeavesRecord ==
    /\ [][p_result' = "InitFailed" =>
            /\ json_file' = json_file
            /\ p_pc' = "idle"
            /\ p_nFull' = 0 /\ p_nIr' = 0
            /\ ~p_wrote'
            /\ IoAt("dump")' = {}]_vars
    /\ [](p_result = "InitFailed" =>
            /\ p_pc = "idle"
            /\ p_nFull = 0 /\ p_nIr = 0
            /\ ~p_wrote
            /\ p_mpsas.kind = "none" /\ p_dumped.kind = "none"
            /\ p_io \in {<<"bus">>, <<"load", "bus">>})

\* C32 witness: a failed initialisation (the device was enabled, then a
\* write raised) of an invocation that had loaded an existing record.
C32_InitFailedAfterLoad ==
    /\ p_result = "InitFailed"
    /\ json_file.exists
    /\ p_io = <<"load", "bus">>
    /\ p_power = "On"

\* C33: after any calls of turnHeaterOn / turnHeaterOff, made on their own
\* or by runs of dewheater, the key dewheaterontime exists exactly when the
\* latest call was turnHeaterOn, and it then holds the time of the first
\* turnHeaterOn since the latest turnHeaterOff; a turnHeaterOn while the key
\* exists leaves it as it is.
C33_OnTimeBookkeeping ==
    /\ []((d_ontime # NoKey) <=> (d_lastCall = "on"))
    /\ [](d_ontime = d_onSince)
    /\ []((d_lastCall = "on") <=> (d_lastCall # "none" /\ d_heater = "On"))
    /\ [][(d_ontime # NoKey /\ d_lastCall' = "on") =>
            d_ontime' = d_ontime]_vars

\* C33 witness: the latest call is a turnHeaterOn at time 4 that found the
\* key written by a turnHeaterOn at time 2: the key still holds 2.
C33_RepeatedOnKeepsStamp ==
    /\ prog = "turnHeater"
    /\ d_lastCall = "on"
    /\ d_heater = "On"
    /\ d_ontime = 2
    /\ d_clock = 4

=============================================================================
